---------------------------- MODULE Spec2Model ----------------------------
(***************************************************************************)
(* embiggen-disk: the resize engine (Resize), the filesystem, LVM and      *)
(* partition resizers, and the machine they act on (one disk with its      *)
(* partition table, the kernel's view of the partitions, one LVM PV/LV and *)
(* one mounted filesystem).                                                *)
(*                                                                         *)
(* Device paths and other strings the code inspects by characters are      *)
(* sequences of one-character strings.                                     *)
(***************************************************************************)
EXTENDS Integers, Sequences, FiniteSets, TLC

VARIABLES
    dry,        \* the --dry-run flag of the current invocation
    mounts,     \* /proc/mounts: the lines, each a sequence of fields
    mnt,        \* the mount point given on the command line
    devNodes,   \* the entries of /dev: name, device number and mode
    disk,       \* the disk: its device path and its size in sectors
    table,      \* the on-disk partition table, as sfdisk -d dumps it
    blkid,      \* what blkid -o export reports as PTTYPE
    kern,       \* the kernel's partitions: name, number, start, size
    lvm,        \* the LVM PV and LV: devices, volume group, sizes
    fsBlocks,   \* the block count statfs reports for the mount point
    stack,      \* the frames of the recursive Resize, innermost last
    changes,    \* the change lines accumulated by Resize
    result,     \* the outcome of the invocation
    pc,         \* the position of main
    ops,        \* the operations issued by the current invocation, in order
    printed,    \* what main printed and its exit status
    env0,       \* the machine's state when the current invocation started
    prev        \* the invocation before the current one: whether it succeeded
                \* without --dry-run, whether it made changes, the disk's size
                \* then, and how many invocations there were

vars == <<dry, mounts, mnt, devNodes, disk, table, blkid, kern, lvm, fsBlocks, stack,
          changes, result, pc, ops, printed, env0, prev>>

(***************************************************************************)
(* Strings                                                                 *)
(***************************************************************************)
Digits == {"0", "1", "2", "3", "4", "5", "6", "7", "8", "9"}

HasPrefix(s, p) ==
    /\ Len(s) >= Len(p)
    /\ SubSeq(s, 1, Len(p)) = p

HasSuffix(s, p) ==
    /\ Len(s) >= Len(p)
    /\ SubSeq(s, Len(s) - Len(p) + 1, Len(s)) = p

\* strings.TrimRight(s, "0123456789")
RECURSIVE TrimRightDigits(_)
TrimRightDigits(s) ==
    IF Len(s) > 0 /\ s[Len(s)] \in Digits
    THEN TrimRightDigits(SubSeq(s, 1, Len(s) - 1))
    ELSE s

\* strings.TrimSuffix(s, suf)
TrimSuffix(s, suf) ==
    IF HasSuffix(s, suf) THEN SubSeq(s, 1, Len(s) - Len(suf)) ELSE s

\* filepath.Base of a cleaned absolute path: what follows the last "/"
RECURSIVE Base(_)
Base(s) ==
    IF \E i \in 1..Len(s) : s[i] = "/"
    THEN Base(SubSeq(s, (CHOOSE i \in 1..Len(s) : s[i] = "/") + 1, Len(s)))
    ELSE s

devEndsInNumber(d) == Len(d) > 0 /\ d[Len(d)] \in Digits

\* the regexp p\d+$ : the position of the "p" of a match, 0 if none
chopP(s) ==
    LET t == TrimRightDigits(s)
    IN  IF Len(t) < Len(s) /\ Len(t) > 0 /\ t[Len(t)] = "p"
        THEN Len(t)
        ELSE 0

Dev == <<"/", "d", "e", "v", "/">>
DevSd == Dev \o <<"s", "d">>
DevVd == Dev \o <<"v", "d">>
DevMmcblk == Dev \o <<"m", "m", "c", "b", "l", "k">>
DevNvme == Dev \o <<"n", "v", "m", "e">>
DevMapper == Dev \o <<"m", "a", "p", "p", "e", "r">>
DmDash == <<"d", "m", "-">>
DevRoot == Dev \o <<"r", "o", "o", "t">>

(***************************************************************************)
(* diskDev: the disk of a partition device.  A panic ends the process.     *)
(***************************************************************************)
Panic == [ok |-> FALSE, v |-> <<>>]
Value(v) == [ok |-> TRUE, v |-> v]

diskDev(partDev) ==
    IF ~HasPrefix(partDev, Dev) THEN Panic
    ELSE IF HasPrefix(partDev, DevSd) THEN Value(TrimRightDigits(partDev))
    ELSE IF HasPrefix(partDev, DevMmcblk)
         THEN Value(TrimSuffix(TrimRightDigits(partDev), <<"p">>))
    ELSE IF HasPrefix(partDev, DevNvme)
         THEN IF chopP(partDev) = 0 THEN Panic
              ELSE Value(SubSeq(partDev, 1, chopP(partDev) - 1))
    ELSE Panic


(***************************************************************************)
(* The partition table.  A metadata row "k: v" is [k, v]; an attribute     *)
(* "k=v" of a partition row is [k, v, bare |-> FALSE] and a bare flag "k"  *)
(* is [k, v |-> k, bare |-> TRUE].  start and size carry integers.         *)
(***************************************************************************)
lvmGPTTypeID == "E6D6D379-F507-44C2-A23C-238F2A3DF928"
rootx8664GPTTypeID == "4F68BCE3-E8CD-4DB1-96E7-FBCAF984B709"
linuxGPTTypeID == "0FC63DAF-8483-4772-8E79-3D69D8477DE4"

KV(k, v) == [k |-> k, v |-> v, bare |-> FALSE]
Flag(k) == [k |-> k, v |-> k, bare |-> TRUE]

\* numbers the rows from 0
getPartitionTableFromZero(dump) ==
    [meta |-> dump.meta,
     parts |-> [i \in 1..Len(dump.rows) |->
                    [dev |-> dump.rows[i].dev,
                     attr |-> dump.rows[i].attr,
                     pno |-> i - 1]]]

\* getPartitionTable: the rows of the dump, numbered in textual order
getPartitionTable(dump) ==
    [meta |-> dump.meta,
     parts |-> [i \in 1..Len(dump.rows) |->
                    [dev |-> dump.rows[i].dev,
                     attr |-> dump.rows[i].attr,
                     pno |-> i]]]

\* partitionTable.Write: what is sent to sfdisk, pno is not part of the text
Write(pt) ==
    [meta |-> pt.meta,
     rows |-> [i \in 1..Len(pt.parts) |->
                   [dev |-> pt.parts[i].dev, attr |-> pt.parts[i].attr]]]

Meta(pt, k) ==
    IF \E i \in 1..Len(pt.meta) : pt.meta[i].k = k
    THEN LET i == CHOOSE j \in 1..Len(pt.meta) :
                      /\ pt.meta[j].k = k
                      /\ \A h \in 1..(j - 1) : pt.meta[h].k # k
         IN  pt.meta[i].v
    ELSE ""

\* removes the unit row along with the row of key
RemoveMetaFrom(pt, key) ==
    [pt EXCEPT !.meta =
        SelectSeq(pt.meta, LAMBDA m : m.k \notin {key, "unit", "last-lba"})]

RemoveMeta(pt, key) ==
    [pt EXCEPT !.meta = SelectSeq(pt.meta, LAMBDA m : m.k # key)]

\* the index of the first attribute key or key=..., 0 if there is none
AttrIdx(sl, key) ==
    IF \E i \in 1..Len(sl.attr) : sl.attr[i].k = key
    THEN CHOOSE i \in 1..Len(sl.attr) :
             /\ sl.attr[i].k = key
             /\ \A h \in 1..(i - 1) : sl.attr[h].k # key
    ELSE 0

Attr(sl, key) ==
    IF AttrIdx(sl, key) = 0 THEN "" ELSE sl.attr[AttrIdx(sl, key)].v

\* AttrInt64: ok = FALSE is log.Fatalf (no attribute, or not an integer)
AttrInt64(sl, key) ==
    IF AttrIdx(sl, key) = 0 \/ sl.attr[AttrIdx(sl, key)].bare
    THEN [ok |-> FALSE, n |-> 0]
    ELSE [ok |-> TRUE, n |-> sl.attr[AttrIdx(sl, key)].v]

Type(sl) == IF Attr(sl, "type") # "" THEN Attr(sl, "type") ELSE Attr(sl, "Id")
Start(sl) == AttrInt64(sl, "start")
Size(sl) == AttrInt64(sl, "size")

\* rewrites the start attribute instead of the size attribute
SetSizeOfStart(sl, size) ==
    [ok |-> TRUE, sl |-> [sl EXCEPT !.attr[AttrIdx(sl, "start")] = KV("start", size)]]

\* SetSize: the first size=... attribute is rewritten; ok = FALSE is the panic
SetSize(sl, size) ==
    IF \E i \in 1..Len(sl.attr) : sl.attr[i].k = "size" /\ ~sl.attr[i].bare
    THEN LET i == CHOOSE j \in 1..Len(sl.attr) :
                      /\ sl.attr[j].k = "size" /\ ~sl.attr[j].bare
                      /\ \A h \in 1..(j - 1) :
                             ~(sl.attr[h].k = "size" /\ ~sl.attr[h].bare)
         IN  [ok |-> TRUE, sl |-> [sl EXCEPT !.attr[i] = KV("size", size)]]
    ELSE [ok |-> FALSE, sl |-> sl]

\* takes every row of type 0 for a useless one
IsZeroRowByType(sl) == [fatal |-> FALSE, zero |-> Type(sl) = "0"]

\* a "useless" row: type 0, start 0, size 0; fatal when && reaches a
\* start or size that is missing
IsZeroRow(sl) ==
    IF Type(sl) # "0" THEN [fatal |-> FALSE, zero |-> FALSE]
    ELSE IF ~Start(sl).ok THEN [fatal |-> TRUE, zero |-> FALSE]
    ELSE IF Start(sl).n # 0 THEN [fatal |-> FALSE, zero |-> FALSE]
    ELSE IF ~Size(sl).ok THEN [fatal |-> TRUE, zero |-> FALSE]
    ELSE [fatal |-> FALSE, zero |-> Size(sl).n = 0]

\* lastNonZeroPartition: scanning from row i down; st is "found", "none"
\* or "fatal"
RECURSIVE lastNonZeroFrom(_, _)
lastNonZeroFrom(pt, i) ==
    IF i = 0 THEN [st |-> "none", i |-> 0]
    ELSE IF IsZeroRow(pt.parts[i]).fatal THEN [st |-> "fatal", i |-> i]
    ELSE IF IsZeroRow(pt.parts[i]).zero THEN lastNonZeroFrom(pt, i - 1)
    ELSE [st |-> "found", i |-> i]

lastNonZeroPartition(pt) == lastNonZeroFrom(pt, Len(pt.parts))

\* trusts whatever blkid reports when the label is absent
LabelGateTrustsBlkid(pt, blk, blkErr) ==
    LET t == Meta(pt, "label")
    IN  IF t \in {"dos", "gpt"}
        THEN [ok |-> TRUE, isGPT |-> t = "gpt", ranBlkid |-> FALSE, why |-> ""]
        ELSE IF t = ""
        THEN [ok |-> ~blkErr /\ blk \in {"dos", "gpt"}, isGPT |-> blk = "gpt",
              ranBlkid |-> TRUE, why |-> "blkid"]
        ELSE [ok |-> FALSE, isGPT |-> FALSE, ranBlkid |-> FALSE,
              why |-> "label"]

\* the switch on pt.Meta("label"): what the gate decides and whether it
\* ran blkid.  blk is the PTTYPE blkid reports ("" when the line is
\* lacking), blkErr whether the command failed.
LabelGate(pt, blk, blkErr) ==
    LET t == Meta(pt, "label")
    IN  IF t = "dos"
        THEN [ok |-> TRUE, isGPT |-> FALSE, ranBlkid |-> FALSE, why |-> ""]
        ELSE IF t = "gpt"
        THEN [ok |-> TRUE, isGPT |-> TRUE, ranBlkid |-> FALSE, why |-> ""]
        ELSE IF t = ""
        THEN [ok |-> ~blkErr /\ blk = "dos", isGPT |-> FALSE,
              ranBlkid |-> TRUE, why |-> "blkid"]
        ELSE [ok |-> FALSE, isGPT |-> FALSE, ranBlkid |-> FALSE,
              why |-> "label"]

\* lets the MBR type of LVM through as well
TypeAllowedWithLvm(isGPT, lastType) ==
    IF isGPT
    THEN lastType \in {lvmGPTTypeID, rootx8664GPTTypeID, linuxGPTTypeID}
    ELSE lastType \in {"83", "8e"}

\* the switch on lastType
TypeAllowed(isGPT, lastType) ==
    IF isGPT
    THEN lastType \in {lvmGPTTypeID, rootx8664GPTTypeID, linuxGPTTypeID}
    ELSE lastType = "83"

sectorSize == 512

\* forgets the division by the sector size
endReserveInBytes == 1024 * 1024

endReserve == 1048576 \div sectorSize

\* compares with < instead of <=
atMaxStrict(remain) == remain < endReserve

\* if remain <= endReserve: the partition is at its maximal size
atMax(remain) == remain <= endReserve

\* passes the extension alone to SetSize
newSizeExtendOnly(part, extend) == extend

\* part.Size() + extend, the argument of SetSize
newSize(part, extend) == Size(part).n + extend

(***************************************************************************)
(* The kernel's BLKPG_RESIZE_PARTITION: the partition numbered pno must    *)
(* exist, its start must be the one given, and the new extent must not     *)
(* overlap another partition.  start and length are in bytes.              *)
(***************************************************************************)
Overlaps(s1, n1, s2, n2) == s1 < s2 + n2 /\ s2 < s1 + n1

BlkpgResize(k, start, length, pno) ==
    IF ~\E q \in k : q.partno = pno THEN [errno |-> "ENXIO", kern |-> k]
    ELSE LET q == CHOOSE x \in k : x.partno = pno
         IN  IF length <= 0 \/ start \div 512 # q.start
             THEN [errno |-> "EINVAL", kern |-> k]
             ELSE IF \E o \in k \ {q} :
                         Overlaps(start \div 512, length \div 512, o.start, o.size)
             THEN [errno |-> "EBUSY", kern |-> k]
             ELSE [errno |-> "",
                   kern |-> (k \ {q}) \cup
                            {[q EXCEPT !.size = length \div 512]}]

(***************************************************************************)
(* partitionResizer.Resize.  d is the --dry-run flag, dsk the disk, tbl    *)
(* the table on the disk, blk what blkid reports, k the kernel's           *)
(* partitions and f the operation that fails in this call ("" for none).   *)
(* The result is the outcome ("ok", "err" for a returned error, "fatal"    *)
(* for log.Fatalf, "panic"), the table and the kernel's partitions after   *)
(* the call, and the operations issued.                                    *)
(***************************************************************************)
Op(name, arg) == [op |-> name, arg |-> arg]

Res(outcome, why, tbl, k, o) ==
    [out |-> outcome, why |-> why, table |-> tbl, kern |-> k, ops |-> o]

\* updateKernelPartition
updateKernelPartition(k, part, f) ==
    IF f = "open" THEN [errno |-> "ENOENT", kern |-> k]
    ELSE BlkpgResize(k, Start(part).n * 512, Size(part).n * 512, part.pno)

\* with --dry-run announces the table and still tells the kernel
writeAndTellDryIoctl(d, tbl, k, f, pt, part, o) ==
    LET u == updateKernelPartition(k, part, f)
        o1 == Append(o, Op(IF d THEN "dry-run sfdisk" ELSE "sfdisk -f", Write(pt)))
        o2 == IF f = "open" THEN o1
              ELSE Append(o1, Op("BLKPG",
                                 [start |-> Start(part).n * 512,
                                  length |-> Size(part).n * 512,
                                  pno |-> part.pno,
                                  errno |-> u.errno]))
    IN  IF ~d /\ f = "sfdisk -f" THEN Res("fatal", "sfdisk -f", tbl, k, o1)
        ELSE Res(IF u.errno = "" THEN "ok" ELSE "err", u.errno,
                 IF d THEN tbl ELSE Write(pt), u.kern, o2)

\* from the write of the new table on: pt is the modified table, part the
\* modified row
writeAndTell(d, tbl, k, f, pt, part, o) ==
    IF d THEN Res("ok", "", tbl, k, Append(o, Op("dry-run sfdisk", Write(pt))))
    ELSE IF f = "sfdisk -f"
    THEN Res("fatal", "sfdisk -f", tbl, k, Append(o, Op("sfdisk -f", Write(pt))))
    ELSE LET u == updateKernelPartition(k, part, f)
             o1 == Append(o, Op("sfdisk -f", Write(pt)))
             o2 == IF f = "open" THEN o1
                   ELSE Append(o1, Op("BLKPG",
                                      [start |-> Start(part).n * 512,
                                       length |-> Size(part).n * 512,
                                       pno |-> part.pno,
                                       errno |-> u.errno]))
         IN  Res(IF u.errno = "" THEN "ok" ELSE "err", u.errno, Write(pt), u.kern, o2)

\* from the read of the disk's size on: part is the selected row, i its index
growLast(d, dsk, tbl, k, f, pt, i, o) ==
    LET part == pt.parts[i]
        o1 == Append(o, Op("read size", dsk.dev))
    IN  IF f = "read size" THEN Res("err", "read size", tbl, k, o1)
        ELSE IF ~Start(part).ok \/ ~Size(part).ok
        THEN Res("fatal", "attribute", tbl, k, o1)
        ELSE LET end == Start(part).n + Size(part).n
                 remain == dsk.size - end
             IN  IF atMax(remain) THEN Res("ok", "", tbl, k, o1)
                 ELSE LET extend == remain - endReserve
                          set == SetSize(part, newSize(part, extend))
                          pt1 == RemoveMeta([pt EXCEPT !.parts[i] = set.sl],
                                            "last-lba")
                      IN  IF ~set.ok THEN Res("panic", "size", tbl, k, o1)
                          ELSE writeAndTell(d, tbl, k, f, pt1, set.sl, o1)

partitionResize(p, d, dsk, tbl, blk, k, f) ==
    LET dd == diskDev(p)
    IN  IF ~dd.ok THEN Res("panic", "diskDev", tbl, k, <<>>)
        ELSE LET o0 == <<Op("sfdisk -d", dd.v)>>
                 pt == getPartitionTable(tbl)
                 g == LabelGate(pt, blk, f = "blkid")
                 o1 == IF g.ranBlkid THEN Append(o0, Op("blkid", dd.v)) ELSE o0
                 sel == lastNonZeroPartition(pt)
             IN  IF dd.v # dsk.dev \/ f = "sfdisk -d"
                 THEN Res("fatal", "sfdisk -d", tbl, k, o0)
                 ELSE IF Len(pt.parts) = 0
                 THEN Res("fatal", "no partitions", tbl, k, o0)
                 ELSE IF ~g.ok THEN Res("err", g.why, tbl, k, o1)
                 ELSE IF sel.st = "fatal" THEN Res("fatal", "attribute", tbl, k, o1)
                 ELSE IF sel.st = "none" THEN Res("err", "no non-zero", tbl, k, o1)
                 ELSE IF ~TypeAllowed(g.isGPT, Type(pt.parts[sel.i]))
                      THEN Res("err", "type", tbl, k, o1)
                 ELSE growLast(d, dsk, tbl, k, f, pt, sel.i, o1)

\* partitionResizer.State: /sys/class/block/<base>/size, which the kernel
\* has for its partitions and for the disk itself
partitionState(p, dsk, k) ==
    IF \E q \in k : q.name = Base(p)
    THEN [ok |-> TRUE, s |-> <<(CHOOSE q \in k : q.name = Base(p)).size, "sectors">>]
    ELSE IF Base(p) = Base(dsk.dev)
    THEN [ok |-> TRUE, s |-> <<dsk.size, "sectors">>]
    ELSE [ok |-> FALSE, s |-> <<>>]

(***************************************************************************)
(* The machine under the tools.  DevSize is the size in sectors of a block *)
(* device: the LV, a partition as the kernel knows it, or the whole disk;  *)
(* -1 when there is no such device.                                        *)
(***************************************************************************)
DevSize(dev, dsk, k, l) ==
    IF l.lv.dev = dev THEN l.lv.sectors
    ELSE IF \E q \in k : q.name = Base(dev) /\ HasPrefix(dev, Dev)
         THEN (CHOOSE q \in k : q.name = Base(dev)).size
    ELSE IF dev = dsk.dev THEN dsk.size
    ELSE -1

RECURSIVE SumSectors(_)
SumSectors(rows) ==
    IF rows = <<>> THEN 0 ELSE Head(rows).sectors + SumSectors(Tail(rows))

\* the sectors of the PVs of volume group vg
VgSectors(l, vg) == SumSectors(SelectSeq(l.pvs, LAMBDA r : r.vg = vg))

PvIdx(l, dev) ==
    IF \E i \in 1..Len(l.pvs) : l.pvs[i].dev = dev
    THEN CHOOSE i \in 1..Len(l.pvs) : l.pvs[i].dev = dev
    ELSE 0

(***************************************************************************)
(* lvResizer                                                               *)
(***************************************************************************)
\* lvResizer.state: lvdisplay -c <dev>
lvState(dev, l, f) ==
    IF f = "lvdisplay" \/ l.lv.dev # dev
    THEN [ok |-> FALSE, vg |-> "", s |-> <<>>]
    ELSE [ok |-> TRUE, vg |-> l.lv.vg, s |-> <<l.lv.sectors, "sectors=">>]

\* takes the last pvdisplay -c row of the LV's volume group
lvDepResizerLastRow(dev, l, f) ==
    LET st == lvState(dev, l, f)
        hit == {i \in 1..Len(l.pvs) : l.pvs[i].vg = st.vg}
    IN  IF ~st.ok THEN [ok |-> FALSE, dep |-> <<>>, ops |-> <<Op("lvdisplay", dev)>>]
        ELSE IF f = "pvdisplay"
        THEN [ok |-> FALSE, dep |-> <<>>,
              ops |-> <<Op("lvdisplay", dev), Op("pvdisplay", <<>>)>>]
        ELSE [ok |-> TRUE,
              dep |-> IF hit = {} THEN <<>>
                      ELSE <<[kind |-> "pv",
                              dev |-> l.pvs[CHOOSE i \in hit :
                                                \A j \in hit : i >= j].dev,
                              cmd |-> "",
                              args |-> <<>>]>>,
              ops |-> <<Op("lvdisplay", dev), Op("pvdisplay", <<>>)>>]

\* lvResizer.DepResizer: the first pvdisplay -c row of the LV's volume group
lvDepResizer(dev, l, f) ==
    LET st == lvState(dev, l, f)
        hit == {i \in 1..Len(l.pvs) : l.pvs[i].vg = st.vg}
    IN  IF ~st.ok THEN [ok |-> FALSE, dep |-> <<>>, ops |-> <<Op("lvdisplay", dev)>>]
        ELSE IF f = "pvdisplay"
        THEN [ok |-> FALSE, dep |-> <<>>,
              ops |-> <<Op("lvdisplay", dev), Op("pvdisplay", <<>>)>>]
        ELSE [ok |-> TRUE,
              dep |-> IF hit = {} THEN <<>>
                      ELSE <<[kind |-> "pv",
                              dev |-> l.pvs[CHOOSE i \in hit :
                                                \A j \in hit : i <= j].dev,
                              cmd |-> "",
                              args |-> <<>>]>>,
              ops |-> <<Op("lvdisplay", dev), Op("pvdisplay", <<>>)>>]

\* reports every failure of lvextend as success
lvResizeSwallowsAll(dev, l, f) ==
    LET free == VgSectors(l, l.lv.vg) - l.lv.sectors
    IN  IF f = "lvextend" \/ l.lv.dev # dev \/ free <= 0
        THEN [out |-> "ok", why |-> "", lvm |-> l,
              ops |-> <<Op("lvextend", dev), Op("matches existing size", dev)>>]
        ELSE [out |-> "ok", why |-> "",
              lvm |-> [l EXCEPT !.lv.sectors = l.lv.sectors + free],
              ops |-> <<Op("lvextend", dev)>>]

\* lvResizer.Resize: lvextend -l +100%FREE gives the LV the free sectors of
\* its volume group, and fails with "matches existing size" when there are
\* none, which Resize reports as success
lvResize(dev, l, f) ==
    LET free == VgSectors(l, l.lv.vg) - l.lv.sectors
    IN  IF f = "lvextend" \/ l.lv.dev # dev
        THEN [out |-> "err", why |-> "lvextend", lvm |-> l,
              ops |-> <<Op("lvextend", dev)>>]
        ELSE IF free <= 0
        THEN [out |-> "ok", why |-> "", lvm |-> l,
              ops |-> <<Op("lvextend", dev), Op("matches existing size", dev)>>]
        ELSE [out |-> "ok", why |-> "",
              lvm |-> [l EXCEPT !.lv.sectors = l.lv.sectors + free],
              ops |-> <<Op("lvextend", dev)>>]

(***************************************************************************)
(* pvResizer                                                               *)
(***************************************************************************)
\* pvResizer.State: pvdisplay -c <dev>
pvState(dev, l, f) ==
    IF f = "pvdisplay" \/ PvIdx(l, dev) = 0 THEN [ok |-> FALSE, s |-> <<>>]
    ELSE [ok |-> TRUE, s |-> <<l.pvs[PvIdx(l, dev)].sectors, "sectors=">>]

\* pvResizer.Resize: pvresize makes the PV as large as its device
pvResize(dev, dsk, k, l, f) ==
    LET n == DevSize(dev, dsk, k, l)
        i == PvIdx(l, dev)
    IN  IF f = "pvresize" \/ i = 0 \/ n < l.pvs[i].sectors
        THEN [out |-> "err", why |-> "pvresize", lvm |-> l,
              ops |-> <<Op("pvresize", dev)>>]
        ELSE [out |-> "ok", why |-> "", lvm |-> [l EXCEPT !.pvs[i].sectors = n],
              ops |-> <<Op("pvresize", dev)>>]

\* never names a dependency
pvDepResizerNone(dev) == <<>>

pvDepResizer(dev) ==
    IF devEndsInNumber(dev)
    THEN <<[kind |-> "part", dev |-> dev, cmd |-> "", args |-> <<>>]>>
    ELSE <<>>

(***************************************************************************)
(* fsResizer                                                               *)
(***************************************************************************)
\* findDevRoot: the outcomes of the search of /dev for another block node
\* with the device number of /dev/root (the order of a map's iteration is
\* not fixed, so any of them may be returned)
findDevRoot(nodes) ==
    LET dev == {n \in nodes : n.mode = "block"}
    IN  IF ~\E n \in dev : n.name = <<"r", "o", "o", "t">>
        THEN {[ok |-> FALSE, dev |-> <<>>]}
        ELSE LET want == (CHOOSE n \in dev : n.name = <<"r", "o", "o", "t">>).rdev
                 same == {n \in dev :
                              n.rdev = want /\ n.name # <<"r", "o", "o", "t">>}
             IN  IF same = {} THEN {[ok |-> FALSE, dev |-> <<>>]}
                 ELSE {[ok |-> TRUE, dev |-> Dev \o n.name] : n \in same}

\* does not skip the rootfs line
statFSKeepsRootfs(m, lines, nodes, f) ==
    LET hit == {i \in 1..Len(lines) : Len(lines[i]) >= 3 /\ lines[i][2] = m}
        bad == [ok |-> FALSE, mnt |-> m, dev |-> <<>>, fstype |-> ""]
    IN  IF f = "statfs" \/ hit = {} THEN {bad}
        ELSE LET i == CHOOSE j \in hit : \A h \in hit : j <= h
             IN  IF lines[i][1] = DevRoot
                 THEN {IF r.ok
                       THEN [ok |-> TRUE, mnt |-> m, dev |-> r.dev,
                             fstype |-> lines[i][3]]
                       ELSE bad : r \in findDevRoot(nodes)}
                 ELSE {[ok |-> TRUE, mnt |-> m, dev |-> lines[i][1],
                        fstype |-> lines[i][3]]}

\* statFS: the first line of /proc/mounts with at least 3 fields, a first
\* field other than rootfs and the mount point as second field; the set of
\* its possible results
statFS(m, lines, nodes, f) ==
    LET hit == {i \in 1..Len(lines) :
                    /\ Len(lines[i]) >= 3
                    /\ lines[i][1] # <<"r", "o", "o", "t", "f", "s">>
                    /\ lines[i][2] = m}
        bad == [ok |-> FALSE, mnt |-> m, dev |-> <<>>, fstype |-> ""]
    IN  IF f = "statfs" \/ hit = {} THEN {bad}
        ELSE LET i == CHOOSE j \in hit : \A h \in hit : j <= h
             IN  IF lines[i][1] = DevRoot
                 THEN {IF r.ok
                       THEN [ok |-> TRUE, mnt |-> m, dev |-> r.dev,
                             fstype |-> lines[i][3]]
                       ELSE bad : r \in findDevRoot(nodes)}
                 ELSE {[ok |-> TRUE, mnt |-> m, dev |-> lines[i][1],
                        fstype |-> lines[i][3]]}

\* a literal argument of a command, as one word
Word(w) == <<w>>

\* runs xfs_growfs on the device instead of the mount point
fsResizerOfXfsOnDev(fs) ==
    IF ~fs.ok THEN [ok |-> FALSE, r |-> <<>>]
    ELSE IF fs.fstype \in {"ext2", "ext3", "ext4"}
    THEN [ok |-> TRUE, r |-> [kind |-> "fs", dev |-> fs.dev, cmd |-> "resize2fs",
                              args |-> <<fs.dev>>]]
    ELSE IF fs.fstype = "xfs"
    THEN [ok |-> TRUE, r |-> [kind |-> "fs", dev |-> fs.dev, cmd |-> "xfs_growfs",
                              args |-> <<Word("-d"), fs.dev>>]]
    ELSE IF fs.fstype = "btrfs"
    THEN [ok |-> TRUE, r |-> [kind |-> "fs", dev |-> fs.dev, cmd |-> "btrfs",
                              args |-> <<Word("filesystem"), Word("resize"),
                                         Word("max"), fs.mnt>>]]
    ELSE [ok |-> FALSE, r |-> <<>>]

\* the dispatch of getFileSystemResizer on the filesystem type
fsResizerOf(fs) ==
    IF ~fs.ok THEN [ok |-> FALSE, r |-> <<>>]
    ELSE IF fs.fstype \in {"ext2", "ext3", "ext4"}
    THEN [ok |-> TRUE, r |-> [kind |-> "fs", dev |-> fs.dev, cmd |-> "resize2fs",
                              args |-> <<fs.dev>>]]
    ELSE IF fs.fstype = "xfs"
    THEN [ok |-> TRUE, r |-> [kind |-> "fs", dev |-> fs.dev, cmd |-> "xfs_growfs",
                              args |-> <<Word("-d"), fs.mnt>>]]
    ELSE IF fs.fstype = "btrfs"
    THEN [ok |-> TRUE, r |-> [kind |-> "fs", dev |-> fs.dev, cmd |-> "btrfs",
                              args |-> <<Word("filesystem"), Word("resize"),
                                         Word("max"), fs.mnt>>]]
    ELSE [ok |-> FALSE, r |-> <<>>]

getFileSystemResizer(m, lines, nodes, f) ==
    {fsResizerOf(fs) : fs \in statFS(m, lines, nodes, f)}

\* does not ask for the device to end in a number
fsDepResizerAnySuffix(dev) ==
    IF dev = DevRoot THEN [ok |-> FALSE, dep |-> <<>>]
    ELSE IF \/ HasPrefix(dev, DevSd)
            \/ HasPrefix(dev, DevVd)
            \/ HasPrefix(dev, DevMmcblk)
            \/ HasPrefix(dev, DevNvme)
    THEN [ok |-> TRUE, dep |-> <<[kind |-> "part", dev |-> dev, cmd |-> "", args |-> <<>>]>>]
    ELSE IF HasPrefix(dev, DevMapper) \/ HasPrefix(Base(dev), DmDash)
    THEN [ok |-> TRUE, dep |-> <<[kind |-> "lv", dev |-> dev, cmd |-> "", args |-> <<>>]>>]
    ELSE [ok |-> FALSE, dep |-> <<>>]

fsDepResizer(dev) ==
    IF dev = DevRoot THEN [ok |-> FALSE, dep |-> <<>>]
    ELSE IF /\ \/ HasPrefix(dev, DevSd)
               \/ HasPrefix(dev, DevVd)
               \/ HasPrefix(dev, DevMmcblk)
               \/ HasPrefix(dev, DevNvme)
            /\ devEndsInNumber(dev)
    THEN [ok |-> TRUE, dep |-> <<[kind |-> "part", dev |-> dev, cmd |-> "", args |-> <<>>]>>]
    ELSE IF HasPrefix(dev, DevMapper) \/ HasPrefix(Base(dev), DmDash)
    THEN [ok |-> TRUE, dep |-> <<[kind |-> "lv", dev |-> dev, cmd |-> "", args |-> <<>>]>>]
    ELSE [ok |-> FALSE, dep |-> <<>>]

\* fsResizer.Resize: the grow command makes the filesystem as large as its
\* device
fsResize(r, d, dsk, k, l, blocks, f) ==
    LET n == DevSize(r.dev, dsk, k, l)
    IN  IF d THEN [out |-> "ok", why |-> "", blocks |-> blocks,
                   ops |-> <<Op("dry-run grow", [cmd |-> r.cmd, args |-> r.args])>>]
        ELSE IF f = "grow" \/ n < blocks
        THEN [out |-> "err", why |-> "grow", blocks |-> blocks,
              ops |-> <<Op(r.cmd, r.args)>>]
        ELSE [out |-> "ok", why |-> "", blocks |-> n,
              ops |-> <<Op(r.cmd, r.args)>>]

\* fsResizer.State: statFS of the mount point, the block count of statfs
fsState(m, lines, nodes, blocks, f) ==
    {IF fs.ok THEN [ok |-> TRUE, s |-> <<blocks, "blocks">>]
     ELSE [ok |-> FALSE, s |-> <<>>] : fs \in statFS(m, lines, nodes, f)}

(***************************************************************************)
(* The machines the tool is started on.                                    *)
(***************************************************************************)
MaxRuns == 2        \* invocations of the tool in a row
MaxGrow == 1        \* times the hypervisor enlarges the disk
GrowBy == 4096      \* sectors added by one enlargement
Slack == 256        \* sectors a layer is smaller than the one below it

Sda == <<"s", "d", "a">>
Vda == <<"v", "d", "a">>
Nvme0n1 == <<"n", "v", "m", "e", "0", "n", "1">>
Mmcblk0 == <<"m", "m", "c", "b", "l", "k", "0">>
Sdb == <<"s", "d", "b">>
Md0 == <<"m", "d", "0">>
LvDev == DevMapper \o <<"/", "v", "g", "-", "r", "o", "o", "t">>
Root == <<"/">>
Rootfs == <<"r", "o", "o", "t", "f", "s">>
efiGPTTypeID == "C12A7328-F81F-11D2-BA4B-00A0C93EC93B"

DigitOf(n) == <<"0", "1", "2", "3", "4", "5", "6", "7", "8", "9">>[n + 1]

\* the separator between a disk's name and a partition's number
SepOf(name) == IF name \in {Nvme0n1, Mmcblk0} THEN <<"p">> ELSE <<>>

PartName(name, n) == name \o SepOf(name) \o <<DigitOf(n)>>

\* The layouts: the rows of the dump in textual order, each the number in
\* the device name, start, size and type; type "" is the type under test.
Layouts ==
    [single |-> <<[n |-> 1, start |-> 2048, size |-> 16384, t |-> ""]>>,
     three |-> <<[n |-> 1, start |-> 2048, size |-> 4096, t |-> "83"],
                 [n |-> 2, start |-> 6144, size |-> 4096, t |-> "82"],
                 [n |-> 3, start |-> 10240, size |-> 8192, t |-> ""]>>,
     gap |-> <<[n |-> 1, start |-> 2048, size |-> 8192, t |-> "83"],
               [n |-> 3, start |-> 10240, size |-> 8192, t |-> ""]>>,
     logical |-> <<[n |-> 1, start |-> 2048, size |-> 4096, t |-> "83"],
                   [n |-> 2, start |-> 6142, size |-> 12290, t |-> "5"],
                   [n |-> 5, start |-> 6144, size |-> 12288, t |-> ""]>>,
     zeros |-> <<[n |-> 1, start |-> 2048, size |-> 16384, t |-> ""],
                 [n |-> 2, start |-> 0, size |-> 0, t |-> "0"],
                 [n |-> 3, start |-> 0, size |-> 0, t |-> "0"]>>,
     swapped |-> <<[n |-> 1, start |-> 10240, size |-> 8192, t |-> "83"],
                   [n |-> 2, start |-> 2048, size |-> 8192, t |-> ""]>>,
     halfzero |-> <<[n |-> 1, start |-> 2048, size |-> 16384, t |-> ""],
                    [n |-> 2, start |-> 0, size |-> 8, t |-> "0"]>>,
     allzero |-> <<[n |-> 1, start |-> 0, size |-> 0, t |-> "0"],
                   [n |-> 2, start |-> 0, size |-> 0, t |-> "0"]>>,
     none |-> <<>>]

\* the last real partition of the layouts with room behind it ends here
LastEnd == 10240 + 8192

\* the label, what blkid says, the key and the value of the type under test
Labels ==
    {[label |-> "dos", blkid |-> "dos", key |-> "type", t |-> t] :
         t \in {"83", "8e"}}
    \cup {[label |-> "gpt", blkid |-> "gpt", key |-> "type", t |-> t] :
              t \in {lvmGPTTypeID, rootx8664GPTTypeID, linuxGPTTypeID,
                     efiGPTTypeID}}
    \cup {[label |-> "", blkid |-> b, key |-> "Id", t |-> t] :
              b \in {"dos", "gpt", ""}, t \in {"83", "8e"}}
    \cup {[label |-> "sun", blkid |-> "sun", key |-> "type", t |-> "83"]}

MetaOf(lb, name) ==
    (IF lb.label = "" THEN <<>> ELSE <<[k |-> "label", v |-> lb.label]>>)
    \o <<[k |-> "device", v |-> Dev \o name], [k |-> "unit", v |-> "sectors"]>>
    \o (IF lb.label = "gpt" THEN <<[k |-> "last-lba", v |-> "18465"]>> ELSE <<>>)

RowOf(lb, name, r) ==
    [dev |-> Dev \o PartName(name, r.n),
     attr |-> <<KV("start", r.start), KV("size", r.size),
                KV(lb.key, IF r.t = "" THEN lb.t ELSE r.t)>>
              \o (IF r.n = 1 THEN <<Flag("bootable")>> ELSE <<>>)]

TableOf(lb, name, lay) ==
    [meta |-> MetaOf(lb, name),
     rows |-> [i \in 1..Len(lay) |-> RowOf(lb, name, lay[i])]]

\* the kernel knows the partitions of the table that are not empty
KernOf(name, lay) ==
    {[name |-> PartName(name, lay[i].n), partno |-> lay[i].n,
      start |-> lay[i].start, size |-> lay[i].size] :
         i \in {j \in 1..Len(lay) : lay[j].size > 0}}

Label(label, t) == CHOOSE x \in Labels : x.label = label /\ x.t = t /\ x.blkid = label

\* the devices a filesystem or a PV may sit on: the first and the last
\* partition the kernel knows, or the whole disk when it has no partitions
Targets(name, lay) ==
    IF Layouts[lay] = <<>> THEN {Dev \o name}
    ELSE LET k == KernOf(name, Layouts[lay])
         IN  {Dev \o q.name : q \in {x \in k : \A y \in k : x.partno <= y.partno}
                                    \cup {x \in k : \A y \in k : x.partno >= y.partno}}

\* The machines the tool is started on: disk name, layout, label, the
\* chain above the partition (the filesystem directly, or LVM), how much
\* smaller each layer is than the one below, and the device under the chain.
Chains(ms, cs, sls) ==
    {[name |-> m.name, lay |-> m.lay, lb |-> m.lb, chain |-> c, slack |-> sl,
      under |-> u] :
         m \in ms, c \in cs, sl \in sls,
         u \in Targets(Sda, "three") \cup Targets(Vda, "three")
               \cup Targets(Nvme0n1, "three") \cup Targets(Mmcblk0, "three")
               \cup Targets(Sda, "logical") \cup Targets(Sda, "swapped")
               \cup Targets(Sdb, "none") \cup Targets(Nvme0n1, "none")
               \cup Targets(Mmcblk0, "none") \cup Targets(Md0, "none")}

\* machines whose kernel still has the partition the filesystem is on,
\* of a table that was since replaced by empty rows or by none
Stale ==
    {[name |-> Sda, lay |-> lay, lb |-> Label("dos", "83"), chain |-> "direct",
      slack |-> 0, under |-> Dev \o PartName(Sda, 1)] :
         lay \in {"allzero", "none"}}

Machines ==
    {x \in
        \* every label and type, on a single partition
        {[name |-> Sda, lay |-> "single", lb |-> lb, chain |-> "direct",
          slack |-> 0, under |-> Dev \o PartName(Sda, 1)] : lb \in Labels}
        \* every chain, with and without room to grow in the layers
        \cup Chains({[name |-> Sda, lay |-> "single", lb |-> Label("dos", "83")],
                     [name |-> Sda, lay |-> "three",
                      lb |-> Label("gpt", lvmGPTTypeID)],
                     [name |-> Sdb, lay |-> "none", lb |-> Label("dos", "83")]},
                    {"direct", "lvm"}, {0, Slack})
        \* every kind of disk and every layout
        \cup Chains({[name |-> Vda, lay |-> "three",
                      lb |-> Label("gpt", linuxGPTTypeID)],
                     [name |-> Nvme0n1, lay |-> "three",
                      lb |-> Label("gpt", linuxGPTTypeID)],
                     [name |-> Mmcblk0, lay |-> "three",
                      lb |-> Label("gpt", linuxGPTTypeID)],
                     [name |-> Sda, lay |-> "gap",
                      lb |-> Label("gpt", lvmGPTTypeID)],
                     [name |-> Sda, lay |-> "swapped",
                      lb |-> Label("gpt", lvmGPTTypeID)],
                     [name |-> Sda, lay |-> "logical", lb |-> Label("dos", "83")],
                     [name |-> Sda, lay |-> "zeros", lb |-> Label("dos", "83")],
                     [name |-> Sda, lay |-> "halfzero", lb |-> Label("dos", "83")]},
                    {"direct"}, {0})
        \* a PV on a whole disk whose name ends in a digit
        \cup Chains({[name |-> Nvme0n1, lay |-> "none", lb |-> Label("dos", "83")],
                     [name |-> Mmcblk0, lay |-> "none", lb |-> Label("dos", "83")],
                     [name |-> Md0, lay |-> "none", lb |-> Label("dos", "83")]},
                    {"lvm"}, {Slack}) :
        /\ x.under \in Targets(x.name, x.lay)
        /\ x.chain = "direct" => Layouts[x.lay] # <<>>}
    \cup Stale

\* What /proc/mounts and /dev hold.  Every machine has the usual two lines
\* for the mount point, rootfs first; one machine with the filesystem on a
\* partition also has every filesystem type, lines to skip, two lines for
\* the mount point, none, /dev/root with the /dev it is resolved in, and
\* devices the tool does not know; one machine with LVM also has its LV
\* under the name /dev/dm-0, and more rows of pvdisplay.
Boot == <<"/", "b", "o", "o", "t">>
Hda1 == Dev \o <<"h", "d", "a", "1">>
MapperX == DevMapper \o <<"x">>
Dm0 == Dev \o DmDash \o <<"0">>
RootName == <<"r", "o", "o", "t">>
TtyName == <<"t", "t", "y">>

Lines(dev, t) == <<<<Rootfs, Root, "rootfs">>, <<dev, Root, t>>>>

Node(name, rdev, mode) == [name |-> name, rdev |-> rdev, mode |-> mode]

DevDirs(part) ==
    {{},
     {Node(RootName, 1, "block"), Node(part, 1, "block"), Node(Sda, 0, "block"),
      Node(TtyName, 1, "char")},
     {Node(RootName, 1, "block"), Node(part, 2, "block"),
      Node(TtyName, 1, "char")},
     {Node(RootName, 1, "char"), Node(part, 1, "block")},
     {Node(RootName, 1, "block"), Node(part, 1, "block"), Node(Sdb, 1, "block")}}

Setup(lines, nodes, lvdev) ==
    [lines |-> lines, nodes |-> nodes, lvdev |-> lvdev, pvs |-> "one"]

\* The rows of pvdisplay -c: the PV under the LV alone, or with the PV
\* other: of another volume group and listed first, of the LV's volume
\* group and listed first or second, or no PV of the LV's volume group.
PvRows(how, under, other, sectors) ==
    LET pv == [dev |-> under, vg |-> "vg", sectors |-> sectors]
    IN  CASE how = "one" -> <<pv>>
          [] how = "after other vg" ->
                 <<[dev |-> other, vg |-> "data", sectors |-> 4096], pv>>
          [] how = "second" ->
                 <<[dev |-> other, vg |-> "vg", sectors |-> 4096], pv>>
          [] how = "first" ->
                 <<pv, [dev |-> other, vg |-> "vg", sectors |-> 4096]>>
          [] how = "absent" ->
                 <<[dev |-> other, vg |-> "data", sectors |-> 4096]>>

Usual(m) ==
    Setup(Lines(IF m.chain = "lvm" THEN LvDev ELSE m.under, "ext4"), {}, LvDev)

Setups(m) ==
    LET fsdev == IF m.chain = "lvm" THEN LvDev ELSE m.under
        part == PartName(m.name, 1)
    IN  {Usual(m)}
        \cup (IF m = [name |-> Sda, lay |-> "single", lb |-> Label("dos", "83"),
                      chain |-> "direct", slack |-> 0, under |-> Dev \o part]
              THEN {Setup(Lines(fsdev, t), {}, LvDev) :
                        t \in {"ext2", "ext3", "xfs", "btrfs", "vfat"}}
                   \cup {Setup(<<<<fsdev, Root>>, <<Hda1, Boot, "ext4">>>>
                                \o Lines(fsdev, "ext4"), {}, LvDev),
                         Setup(Lines(fsdev, "xfs") \o <<<<LvDev, Root, "ext4">>>>,
                               {}, LvDev),
                         Setup(Lines(fsdev, "ext4") \o <<<<fsdev, Root, "vfat">>>>,
                               {}, LvDev),
                         Setup(<<<<Rootfs, Root, "rootfs">>, <<fsdev, Boot, "ext4">>,
                                 <<fsdev, Root>>>>, {}, LvDev)}
                   \cup {Setup(Lines(DevRoot, "ext4"), n, LvDev) :
                             n \in DevDirs(part)}
                   \cup {Setup(Lines(d, "ext4"), {}, LvDev) :
                             d \in {Dev \o Sda, Hda1, MapperX, DevMapper}}
              ELSE {})
        \cup (IF m = [name |-> Sda, lay |-> "three",
                      lb |-> Label("gpt", lvmGPTTypeID), chain |-> "lvm",
                      slack |-> Slack, under |-> Dev \o PartName(Sda, 3)]
              THEN {Setup(Lines(Dm0, "xfs"), {}, Dm0)}
                   \cup {[Setup(Lines(fsdev, "ext4"), {}, LvDev) EXCEPT !.pvs = how] :
                             how \in {"after other vg", "second", "first",
                                      "absent"}}
              ELSE {})

\* the sizes of the disk: smaller than the last partition's end, the
\* reserve beyond it, one sector more, and more
DiskSizes ==
    {LastEnd - Slack, LastEnd + 2048, LastEnd + 2049, LastEnd + 2048 + GrowBy}

(***************************************************************************)
(* The state of the machine, the initial states                            *)
(***************************************************************************)
\* no invocation before the first one
NoRun == [n |-> 0, grew |-> FALSE, changed |-> FALSE, size |-> 0]

\* nothing printed yet
NoOutput == [head |-> "", lines |-> <<>>, exit |-> 1]

NoLvm == [lv |-> [dev |-> <<>>, vg |-> "", sectors |-> 0], pvs |-> <<>>]

Env == [disk |-> disk, table |-> table, kern |-> kern, lvm |-> lvm,
        fsBlocks |-> fsBlocks]

\* a frame that starts at DepResizer, without the first State
FrameAtDep(r) == [r |-> r, s0 |-> <<>>, pc |-> "dep"]

Frame(r) == [r |-> r, s0 |-> <<>>, pc |-> "state0"]

Init ==
    \E m \in Machines, size \in DiskSizes, d \in BOOLEAN :
      \E v \in IF size = LastEnd + 2048 + GrowBy THEN Setups(m) ELSE {Usual(m)} :
        LET chain == m.chain
            slack == m.slack
            under == m.under
            dsk == [dev |-> Dev \o m.name, size |-> size, grown |-> 0]
            k == KernOf(m.name, Layouts[IF m \in Stale THEN "single" ELSE m.lay])
            n == DevSize(under, dsk, k, NoLvm)
            l == [lv |-> [dev |-> v.lvdev, vg |-> "vg",
                          sectors |-> n - 2 * slack],
                  pvs |-> PvRows(v.pvs, under, Dev \o PartName(m.name, 1),
                                 n - slack)]
        IN  /\ dry = d
            /\ mnt = Root
            /\ mounts = v.lines
            /\ devNodes = v.nodes
            /\ disk = dsk
            /\ table = TableOf(m.lb, m.name, Layouts[m.lay])
            /\ blkid = m.lb.blkid
            /\ kern = k
            /\ lvm = IF chain = "lvm" THEN l ELSE NoLvm
            /\ fsBlocks = (IF chain = "lvm" THEN l.lv.sectors ELSE n) - slack
            /\ stack = <<>>
            /\ changes = <<>>
            /\ result = ""
            /\ pc = "start"
            /\ ops = <<>>
            /\ printed = NoOutput
            /\ env0 = [disk |-> dsk,
                       table |-> TableOf(m.lb, m.name, Layouts[m.lay]),
                       kern |-> k,
                       lvm |-> IF chain = "lvm" THEN l ELSE NoLvm,
                       fsBlocks |-> (IF chain = "lvm" THEN l.lv.sectors ELSE n)
                                    - slack]
            /\ prev = NoRun

(***************************************************************************)
(* main and Resize.  Resize(e) is a recursion over the chain: a frame per  *)
(* resizer, at State (state0), DepResizer (dep), Resize (resize) or the    *)
(* second State (state1).  An error returned at any frame is returned by   *)
(* every frame above it together with the changes so far.                  *)
(***************************************************************************)
Top == stack[Len(stack)]

SetTop(fr) == [stack EXCEPT ![Len(stack)] = fr]



machine == <<mounts, mnt, devNodes, disk, table, blkid, kern, lvm, fsBlocks>>

\* main up to the call of Resize: getFileSystemResizer, fatalf on error
Main ==
    /\ pc = "start"
    /\ \E f \in {"", "statfs"} :
         \E g \in getFileSystemResizer(mnt, mounts, devNodes, f) :
           IF g.ok
           THEN /\ stack' = <<Frame(g.r)>>
                /\ pc' = "resize"
                /\ UNCHANGED result
           ELSE /\ stack' = <<>>
                /\ pc' = "done"
                /\ result' = "fatal"
    /\ UNCHANGED <<dry, machine, changes, ops, printed, env0, prev>>

\* the mark of a failure in ops: the resizer, the call that failed
\* ("State", "DepResizer" or "Resize") and the reason
Mark(how, r, call, why) ==
    Op(how, [r |-> r, call |-> call, why |-> why])

\* only the innermost frame returns, the one above goes on
FailInnermost(o) ==
    /\ stack' = SubSeq(stack, 1, Len(stack) - 1)
    /\ ops' = o
    /\ IF Len(stack) = 1
       THEN pc' = "print" /\ result' = "error"
       ELSE UNCHANGED <<pc, result>>
    /\ UNCHANGED <<changes, printed>>

\* returns the error without the changes accumulated so far
FailDropsChanges(o) ==
    /\ stack' = <<>>
    /\ pc' = "print"
    /\ result' = "error"
    /\ ops' = o
    /\ changes' = <<>>
    /\ UNCHANGED printed

\* a returned error: every frame returns, main prints
Fail(o) ==
    /\ stack' = <<>>
    /\ pc' = "print"
    /\ result' = "error"
    /\ ops' = o
    /\ UNCHANGED <<changes, printed>>

\* log.Fatalf or a panic: the process ends at once
Die(how, o) ==
    /\ stack' = <<>>
    /\ pc' = "done"
    /\ result' = how
    /\ ops' = o
    /\ UNCHANGED <<changes, printed>>

\* r.State(): the set of its possible results
StateOf(r, fail) ==
    IF r.kind = "fs"
    THEN fsState(mnt, mounts, devNodes, fsBlocks, IF fail THEN "statfs" ELSE "")
    ELSE IF r.kind = "lv"
    THEN {[ok |-> lvState(r.dev, lvm, IF fail THEN "lvdisplay" ELSE "").ok,
           s |-> lvState(r.dev, lvm, IF fail THEN "lvdisplay" ELSE "").s]}
    ELSE IF r.kind = "pv"
    THEN {pvState(r.dev, lvm, IF fail THEN "pvdisplay" ELSE "")}
    ELSE {IF fail THEN [ok |-> FALSE, s |-> <<>>] ELSE partitionState(r.dev, disk, kern)}

\* s0, err := e.State()
State0 ==
    /\ pc = "resize" /\ stack # <<>> /\ Top.pc = "state0"
    /\ \E fail \in BOOLEAN :
         \E st \in StateOf(Top.r, fail) :
           LET o == Append(ops, Op("State", Top.r))
           IN  IF st.ok
               THEN /\ stack' = SetTop([Top EXCEPT !.s0 = st.s, !.pc = "dep"])
                    /\ ops' = o
                    /\ UNCHANGED <<pc, result, changes, printed>>
               ELSE Fail(Append(o, Mark("error", Top.r, "State", "before")))
    /\ UNCHANGED <<dry, machine, env0, prev>>

\* r.DepResizer()
DepOf(r, f) ==
    IF r.kind = "fs"
    THEN [ok |-> fsDepResizer(r.dev).ok, dep |-> fsDepResizer(r.dev).dep,
          ops |-> <<>>]
    ELSE IF r.kind = "lv" THEN lvDepResizer(r.dev, lvm, f)
    ELSE IF r.kind = "pv"
    THEN [ok |-> TRUE, dep |-> pvDepResizer(r.dev), ops |-> <<>>]
    ELSE [ok |-> TRUE, dep |-> <<>>, ops |-> <<>>]

\* dep, err := e.DepResizer(); if dep != nil { changes, err = Resize(dep) }
Dep ==
    /\ pc = "resize" /\ stack # <<>> /\ Top.pc = "dep"
    /\ \E f \in IF Top.r.kind = "lv" THEN {"", "lvdisplay", "pvdisplay"} ELSE {""} :
         LET dp == DepOf(Top.r, f)
             o == Append(ops, Op("DepResizer", Top.r)) \o dp.ops
         IN  IF ~dp.ok
             THEN Fail(Append(o, Mark("error", Top.r, "DepResizer", "")))
             ELSE /\ stack' = IF dp.dep = <<>>
                              THEN SetTop([Top EXCEPT !.pc = "resize"])
                              ELSE Append(SetTop([Top EXCEPT !.pc = "resize"]),
                                          Frame(dp.dep[1]))
                  /\ ops' = o
                  /\ UNCHANGED <<pc, result, changes, printed>>
    /\ UNCHANGED <<dry, machine, env0, prev>>

\* the operations of r.Resize() that may fail
FailPoints(r) ==
    IF r.kind = "fs" THEN {"", "grow"}
    ELSE IF r.kind = "lv" THEN {"", "lvextend"}
    ELSE IF r.kind = "pv" THEN {"", "pvresize"}
    ELSE {"", "sfdisk -d", "blkid", "read size", "sfdisk -f", "open"}

\* r.Resize(): the outcome, the machine after it and the operations issued
ResizeOf(r, f) ==
    IF r.kind = "fs"
    THEN LET x == fsResize(r, dry, disk, kern, lvm, fsBlocks, f)
         IN  [out |-> x.out, why |-> x.why, table |-> table, kern |-> kern,
              lvm |-> lvm, fsBlocks |-> x.blocks, ops |-> x.ops]
    ELSE IF r.kind = "lv"
    THEN LET x == lvResize(r.dev, lvm, f)
         IN  [out |-> x.out, why |-> x.why, table |-> table, kern |-> kern,
              lvm |-> x.lvm, fsBlocks |-> fsBlocks, ops |-> x.ops]
    ELSE IF r.kind = "pv"
    THEN LET x == pvResize(r.dev, disk, kern, lvm, f)
         IN  [out |-> x.out, why |-> x.why, table |-> table, kern |-> kern,
              lvm |-> x.lvm, fsBlocks |-> fsBlocks, ops |-> x.ops]
    ELSE LET x == partitionResize(r.dev, dry, disk, table, blkid, kern, f)
         IN  [out |-> x.out, why |-> x.why, table |-> x.table, kern |-> x.kern,
              lvm |-> lvm, fsBlocks |-> fsBlocks, ops |-> x.ops]

\* err = e.Resize()
DoResize ==
    /\ pc = "resize" /\ stack # <<>> /\ Top.pc = "resize"
    /\ \E f \in FailPoints(Top.r) :
         LET x == ResizeOf(Top.r, f)
             o == Append(ops, Op("Resize", Top.r)) \o x.ops
         IN  /\ table' = x.table
             /\ kern' = x.kern
             /\ lvm' = x.lvm
             /\ fsBlocks' = x.fsBlocks
             /\ IF x.out = "ok"
                THEN /\ stack' = SetTop([Top EXCEPT !.pc = "state1"])
                     /\ ops' = o
                     /\ UNCHANGED <<pc, result, changes, printed>>
                ELSE IF x.out = "err"
                THEN Fail(Append(o, Mark("error", Top.r, "Resize", x.why)))
                ELSE Die(x.out, Append(o, Mark(x.out, Top.r, "Resize", x.why)))
    /\ UNCHANGED <<dry, mounts, mnt, devNodes, disk, blkid, env0, prev>>

\* s1, err := e.State(); if s0 != s1 { changes = append(changes, ...) }
\* adds a line for every layer, changed or not
State1AlwaysAppends ==
    /\ pc = "resize" /\ stack # <<>> /\ Top.pc = "state1"
    /\ \E fail \in BOOLEAN :
         \E st \in StateOf(Top.r, fail) :
           LET o == Append(ops, Op("State", Top.r))
           IN  IF ~st.ok
               THEN Fail(Append(o, Mark("error", Top.r, "State", "after")))
               ELSE /\ changes' = Append(changes, [r |-> Top.r, before |-> Top.s0,
                                                    after |-> st.s])
                    /\ stack' = SubSeq(stack, 1, Len(stack) - 1)
                    /\ ops' = o
                    /\ IF Len(stack) = 1
                       THEN pc' = "print" /\ result' = "ok"
                       ELSE UNCHANGED <<pc, result>>
                    /\ UNCHANGED printed
    /\ UNCHANGED <<dry, machine, env0, prev>>

State1 ==
    /\ pc = "resize" /\ stack # <<>> /\ Top.pc = "state1"
    /\ \E fail \in BOOLEAN :
         \E st \in StateOf(Top.r, fail) :
           LET o == Append(ops, Op("State", Top.r))
           IN  IF ~st.ok
               THEN Fail(Append(o, Mark("error", Top.r, "State", "after")))
               ELSE /\ changes' =
                          IF Top.s0 # st.s
                          THEN Append(changes, [r |-> Top.r, before |-> Top.s0,
                                                after |-> st.s])
                          ELSE changes
                    /\ stack' = SubSeq(stack, 1, Len(stack) - 1)
                    /\ ops' = o
                    /\ IF Len(stack) = 1
                       THEN pc' = "print" /\ result' = "ok"
                       ELSE UNCHANGED <<pc, result>>
                    /\ UNCHANGED printed
    /\ UNCHANGED <<dry, machine, env0, prev>>

\* prints "No changes made." whenever there are no changes, error or not
OutputNoChangesOnError(chg, res) ==
    [head |-> IF Len(chg) > 0 THEN "Changes made:" ELSE "No changes made.",
     lines |-> chg,
     exit |-> IF res = "ok" THEN 0 ELSE 1]

\* what main prints and the exit status
Output(chg, res) ==
    [head |-> IF Len(chg) > 0 THEN "Changes made:"
              ELSE IF res = "ok" THEN "No changes made." ELSE "",
     lines |-> chg,
     exit |-> IF res = "ok" THEN 0 ELSE 1]

Report ==
    /\ pc = "print"
    /\ pc' = "done"
    /\ printed' = Output(changes, result)
    /\ UNCHANGED <<dry, machine, stack, changes, result, ops, env0, prev>>

\* the tool is started again on the same mount point
Rerun ==
    /\ pc = "done" /\ prev.n + 1 < MaxRuns
    /\ \E d \in BOOLEAN : dry' = d
    /\ prev' = [n |-> prev.n + 1,
                grew |-> result = "ok" /\ ~dry,
                changed |-> result = "ok" /\ ~dry /\ Len(changes) > 0,
                size |-> env0.disk.size]
    /\ pc' = "start"
    /\ stack' = <<>>
    /\ changes' = <<>>
    /\ result' = ""
    /\ ops' = <<>>
    /\ printed' = NoOutput
    /\ env0' = Env
    /\ UNCHANGED machine

\* the hypervisor enlarges the disk between two invocations
GrowDisk ==
    /\ pc = "done" /\ prev.n + 1 < MaxRuns /\ disk.grown < MaxGrow
    /\ disk' = [disk EXCEPT !.size = @ + GrowBy, !.grown = @ + 1]
    /\ UNCHANGED <<dry, mounts, mnt, devNodes, table, blkid, kern, lvm,
                   fsBlocks, stack, changes, result, pc, ops, printed, env0, prev>>

Next ==
    \/ Main
    \/ State0
    \/ Dep
    \/ DoResize
    \/ State1
    \/ Report
    \/ Rerun
    \/ GrowDisk

Spec == Init /\ [][Next]_vars

\* An invocation that was started goes on until main has returned; nothing
\* makes anyone start the tool again or enlarge the disk.  e.Resize() can
\* be called exactly when the innermost frame has come to it, so the weak
\* fairness of DoResize is written with that condition.
FairSpec ==
    /\ Spec
    /\ WF_vars(Main \/ State0 \/ Dep \/ State1 \/ Report)
    /\ \/ []<>~(pc = "resize" /\ stack # <<>> /\ Top.pc = "resize")
       \/ []<><<DoResize>>_vars

(***************************************************************************)
(* The text of a table.  getPartitionTable and partitionTable.Write as     *)
(* they work on the bytes of sfdisk's output: a text is a sequence of      *)
(* characters, the parsed table has the metadata lines and, for each       *)
(* partition line, the device, the attributes and the number.              *)
(***************************************************************************)
NL == "\n"
IsSpace(c) == c \in {" ", "\t", NL}

RECURSIVE TrimLeft(_)
TrimLeft(s) ==
    IF s # <<>> /\ IsSpace(Head(s)) THEN TrimLeft(Tail(s)) ELSE s

RECURSIVE TrimRight(_)
TrimRight(s) ==
    IF s # <<>> /\ IsSpace(s[Len(s)]) THEN TrimRight(SubSeq(s, 1, Len(s) - 1))
    ELSE s

\* strings.TrimSpace
TrimSpace(s) == TrimRight(TrimLeft(s))

\* the position of the first c in s, 0 if there is none
IndexOf(s, c) ==
    IF \E i \in 1..Len(s) : s[i] = c
    THEN CHOOSE i \in 1..Len(s) : s[i] = c /\ \A j \in 1..(i - 1) : s[j] # c
    ELSE 0

\* strings.Split(s, c)
RECURSIVE Split(_, _)
Split(s, c) ==
    IF IndexOf(s, c) = 0 THEN <<s>>
    ELSE <<SubSeq(s, 1, IndexOf(s, c) - 1)>>
         \o Split(SubSeq(s, IndexOf(s, c) + 1, Len(s)), c)

\* strings.SplitN(s, c, 2)
SplitN2(s, c) ==
    IF IndexOf(s, c) = 0 THEN <<s>>
    ELSE <<SubSeq(s, 1, IndexOf(s, c) - 1), SubSeq(s, IndexOf(s, c) + 1, Len(s))>>

\* strings.Join(a, sep)
RECURSIVE Join(_, _)
Join(a, sep) ==
    IF a = <<>> THEN <<>>
    ELSE IF Len(a) = 1 THEN a[1]
    ELSE a[1] \o sep \o Join(Tail(a), sep)

\* eqRx.ReplaceAllString(s, "="): every = with the white space around it
\* becomes =, from left to right
RECURSIVE eqRx(_)
eqRx(s) ==
    IF s = <<>> THEN <<>>
    ELSE LET rest == TrimLeft(s)
         IN  IF rest # <<>> /\ Head(rest) = "="
             THEN <<"=">> \o eqRx(TrimLeft(Tail(rest)))
             ELSE <<Head(s)>> \o eqRx(Tail(s))

\* the body of the loop over the lines of the dump: pt is the table so
\* far, inParts stands for pt.parts != nil
ParseLine(st, raw) ==
    LET line == TrimSpace(raw)
        f == SplitN2(line, ":")
    IN  IF st.fatal THEN st
        ELSE IF line = <<>> THEN [st EXCEPT !.inParts = TRUE]
        ELSE IF ~st.inParts THEN [st EXCEPT !.meta = Append(@, line)]
        ELSE IF Len(f) < 2 THEN [st EXCEPT !.fatal = TRUE]
        ELSE LET rest == Split(TrimSpace(f[2]), ",")
             IN  [st EXCEPT
                     !.pno = @ + 1,
                     !.parts = Append(@,
                         [dev |-> TrimSpace(f[1]),
                          attr |-> [i \in 1..Len(rest) |->
                                        eqRx(TrimSpace(rest[i]))],
                          pno |-> st.pno + 1])]

RECURSIVE ParseLines(_, _)
ParseLines(st, lines) ==
    IF lines = <<>> THEN st
    ELSE ParseLines(ParseLine(st, Head(lines)), Tail(lines))

\* getPartitionTable, from the output of sfdisk -d on
getPartitionTableOfText(out) ==
    LET st == ParseLines([meta |-> <<>>, parts |-> <<>>, inParts |-> FALSE,
                          pno |-> 0, fatal |-> FALSE], Split(out, NL))
    IN  [ok |-> ~st.fatal, meta |-> st.meta, parts |-> st.parts]

\* sfdiskLine.String
String(sl) == sl.dev \o <<" ", ":", " ">> \o Join(sl.attr, <<",", " ">>)

RECURSIVE JoinLines(_)
JoinLines(a) == IF a = <<>> THEN <<>> ELSE Head(a) \o <<NL>> \o JoinLines(Tail(a))

\* writes the partition lines right after the metadata lines
WriteTextNoBlank(pt) ==
    JoinLines(pt.meta)
    \o JoinLines([i \in 1..Len(pt.parts) |-> String(pt.parts[i])])

\* partitionTable.Write, the bytes
WriteText(pt) ==
    JoinLines(pt.meta) \o <<NL>>
    \o JoinLines([i \in 1..Len(pt.parts) |-> String(pt.parts[i])])

\* The lines the dumps are made of: metadata, blank lines, partition lines
\* with the paddings and the attributes sfdisk prints, and lines that are
\* not well formed.
DumpLines ==
    {<<"l", ":", " ", "g">>,
     <<" ", "u", ":", "s", " ">>,
     <<>>,
     <<" ">>,
     <<"d", "1", " ", ":", " ", "s", "=", " ", " ", "1", ",", " ", "t", "=", "8">>,
     <<"d", "2", ":", "s", " ", "=", "2", ",", "b", " ">>,
     <<"d", " ", ":", " ", "n", "=", "a", " ", "=", " ", "=", "b", ",", ",", "c", ":">>,
     <<"d", ":">>,
     <<"x">>}

MaxLines == 3

RECURSIVE Texts(_)
Texts(n) ==
    IF n = 0 THEN {<<>>}
    ELSE Texts(n - 1)
         \cup {t \o l \o <<NL>> : t \in Texts(n - 1), l \in DumpLines}
         \cup {t \o l : t \in Texts(n - 1), l \in DumpLines}

\* the dump is parsed, the table written, and what was written parsed again
RtInit ==
    /\ table \in Texts(MaxLines)
    /\ ops = <<>>
    /\ pc = "dump"
    /\ dry = FALSE
    /\ mnt = Root
    /\ mounts = <<>>
    /\ devNodes = {}
    /\ disk = [dev |-> Dev \o Sda, size |-> 0, grown |-> 0]
    /\ blkid = ""
    /\ kern = {}
    /\ lvm = NoLvm
    /\ fsBlocks = 0
    /\ stack = <<>>
    /\ changes = <<>>
    /\ result = ""
    /\ printed = NoOutput
    /\ env0 = <<>>
    /\ prev = NoRun

RtParse ==
    /\ pc = "dump"
    /\ ops' = Append(ops, Op("getPartitionTable", getPartitionTableOfText(table)))
    /\ pc' = IF getPartitionTableOfText(table).ok THEN "parsed" ELSE "done"
    /\ UNCHANGED <<dry, machine, stack, changes, result, printed, env0, prev>>

RtWrite ==
    /\ pc = "parsed"
    /\ ops' = Append(ops, Op("Write", WriteText(ops[1].arg)))
    /\ pc' = "written"
    /\ UNCHANGED <<dry, machine, stack, changes, result, printed, env0, prev>>

RtReparse ==
    /\ pc = "written"
    /\ ops' = Append(ops, Op("getPartitionTable", getPartitionTableOfText(ops[2].arg)))
    /\ pc' = "reparsed"
    /\ UNCHANGED <<dry, machine, stack, changes, result, printed, env0, prev>>

RtNext == RtParse \/ RtWrite \/ RtReparse

RoundTrip == RtInit /\ [][RtNext]_vars

(***************************************************************************)
(* What the properties below read from the log of operations               *)
(***************************************************************************)
Idx(name) == {i \in 1..Len(ops) : ops[i].op = name}

Marks == {"error", "fatal", "panic"}

\* the positions of the calls of kind.Resize
ResizeIdx(kind) == {i \in Idx("Resize") : ops[i].arg.kind = kind}

\* the position of a layer in the chain, the partition lowest
Rank(kind) ==
    CASE kind = "part" -> 1 [] kind = "pv" -> 2 [] kind = "lv" -> 3
      [] kind = "fs" -> 4

\* the kinds of the resizers whose Resize was called, in the order of the calls
ResizeKinds ==
    LET rs == SelectSeq(ops, LAMBDA o : o.op = "Resize")
    IN  [i \in 1..Len(rs) |-> rs[i].arg.kind]

IsPrefix(a, b) == Len(a) <= Len(b) /\ a = SubSeq(b, 1, Len(a))

\* the chain is filesystem -> LV -> PV -> partition
IsChain4 ==
    /\ lvm # NoLvm
    /\ mounts[2][1] = lvm.lv.dev
    /\ \E i \in 1..Len(lvm.pvs) :
           /\ lvm.pvs[i].vg = lvm.lv.vg
           /\ \A j \in 1..(i - 1) : lvm.pvs[j].vg # lvm.lv.vg
           /\ lvm.pvs[i].dev # disk.dev

\* the value of attribute key of a row of a dump
RowAttr(row, key) ==
    row.attr[CHOOSE i \in 1..Len(row.attr) : row.attr[i].k = key].v

RowType(row) ==
    IF \E i \in 1..Len(row.attr) : row.attr[i].k = "type"
    THEN RowAttr(row, "type")
    ELSE RowAttr(row, "Id")

RowIsZero(row) ==
    RowType(row) = "0" /\ RowAttr(row, "start") = 0 /\ RowAttr(row, "size") = 0

\* the index of the last row of a dump that is not all zero
LastReal(dump) ==
    CHOOSE i \in 1..Len(dump.rows) :
        /\ ~RowIsZero(dump.rows[i])
        /\ \A j \in (i + 1)..Len(dump.rows) : RowIsZero(dump.rows[j])

\* the label of a dump, "" when it has none
LabelOf(dump) ==
    IF \E i \in 1..Len(dump.meta) : dump.meta[i].k = "label"
    THEN dump.meta[CHOOSE i \in 1..Len(dump.meta) : dump.meta[i].k = "label"].v
    ELSE ""

\* D - E of the table the invocation found: the sectors after the last real
\* partition
Remain0 ==
    env0.disk.size
    - (RowAttr(env0.table.rows[LastReal(env0.table)], "start")
       + RowAttr(env0.table.rows[LastReal(env0.table)], "size"))

Size0 == RowAttr(env0.table.rows[LastReal(env0.table)], "size")
Start0 == RowAttr(env0.table.rows[LastReal(env0.table)], "start")
Type0 == RowType(env0.table.rows[LastReal(env0.table)])

\* the mark that ends the log, if the invocation failed
Failed == ops # <<>> /\ ops[Len(ops)].op \in Marks

FailedWith(why) == Failed /\ ops[Len(ops)].arg.why = why

\* partitionResizer.Resize read the size of the disk
SizeWasRead == Idx("read size") # {} /\ ~FailedWith("read size")

\* the table is written, or would be without --dry-run
WriteIdx == Idx("sfdisk -f") \cup Idx("dry-run sfdisk")

NothingWritten ==
    /\ Idx("sfdisk -f") = {} /\ Idx("BLKPG") = {}
    /\ table = env0.table /\ kern = env0.kern

(***************************************************************************)
(* C1.  On a chain filesystem -> LV -> PV -> partition, one Resize calls   *)
(* the layers' Resize in the order partition, PV, LV, filesystem, each at  *)
(* most once; State of a layer is read before its Resize, and read again   *)
(* after it before the next layer's Resize is called; a successful run     *)
(* calls all four.                                                         *)
(***************************************************************************)
C1_BottomUpOrder ==
    IsChain4 =>
        /\ IsPrefix(ResizeKinds, <<"part", "pv", "lv", "fs">>)
        /\ \A i \in Idx("Resize") :
             /\ \E j \in 1..(i - 1) :
                    ops[j].op = "State" /\ ops[j].arg = ops[i].arg
             /\ \A m \in Idx("Resize") :
                    m > i => \E j \in (i + 1)..(m - 1) :
                                 ops[j].op = "State" /\ ops[j].arg = ops[i].arg
        /\ result = "ok" =>
             /\ ResizeKinds = <<"part", "pv", "lv", "fs">>
             /\ \A i \in Idx("Resize") :
                    \E j \in (i + 1)..Len(ops) :
                        ops[j].op = "State" /\ ops[j].arg = ops[i].arg

C1_Witness ==
    /\ IsChain4 /\ pc = "done" /\ result = "ok"
    /\ Len(changes) = 4
    /\ ResizeKinds = <<"part", "pv", "lv", "fs">>

(***************************************************************************)
(* C2.  Once the Resize of a layer, or the State read after it, has        *)
(* failed, nothing more is issued in that run: the failure ends the log,   *)
(* and every Resize that was called is of the failing layer or of a layer  *)
(* below it.                                                               *)
(***************************************************************************)
C2_NoResizeAboveFailure ==
    \A i \in 1..Len(ops) :
        ops[i].op \in Marks =>
            /\ i = Len(ops)
            /\ stack = <<>>
            /\ (ops[i].arg.call = "Resize" \/ ops[i].arg.why = "after") =>
                   \A j \in Idx("Resize") :
                       Rank(ops[j].arg.kind) <= Rank(ops[i].arg.r.kind)

C2_Witness ==
    /\ IsChain4 /\ pc = "done" /\ Failed
    /\ ops[Len(ops)].arg.call = "Resize"
    /\ ops[Len(ops)].arg.r.kind = "pv"
    /\ Len(changes) = 1
    /\ ResizeKinds = <<"part", "pv">>

(***************************************************************************)
(* C3.  With --dry-run no layer is changed: no table is written, no BLKPG  *)
(* ioctl is issued, no grow command, lvextend or pvresize is run, and the  *)
(* partition table, the kernel's partitions, the PV, the LV and the        *)
(* filesystem are what they were when the tool started.                    *)
(***************************************************************************)
C3_DryRunChangesNothing ==
    dry =>
        /\ Idx("sfdisk -f") = {} /\ Idx("BLKPG") = {}
        /\ Idx("resize2fs") = {} /\ Idx("xfs_growfs") = {} /\ Idx("btrfs") = {}
        /\ Idx("lvextend") = {} /\ Idx("pvresize") = {}
        /\ table = env0.table /\ kern = env0.kern
        /\ lvm = env0.lvm /\ fsBlocks = env0.fsBlocks

(***************************************************************************)
(* C4.  After a successful run without --dry-run, a run on the same mount  *)
(* point with the disk's size unchanged makes no change: its change list   *)
(* stays empty, its partition step finds remain <= 2048 and writes         *)
(* nothing, and when it succeeds it prints "No changes made.".             *)
(***************************************************************************)
C4_SecondRunNoChanges ==
    (prev.grew /\ prev.size = env0.disk.size) =>
        /\ changes = <<>>
        /\ WriteIdx = {} /\ Idx("BLKPG") = {}
        /\ SizeWasRead => Remain0 <= 2048
        /\ (pc = "done" /\ result = "ok") =>
               printed = [head |-> "No changes made.", lines |-> <<>>, exit |-> 0]

C4_Witness ==
    /\ prev.grew /\ prev.changed /\ prev.size = env0.disk.size
    /\ pc = "done" /\ result = "ok"
    /\ SizeWasRead
    /\ printed.head = "No changes made."

(***************************************************************************)
(* C5.  Monotone growth: every change line reports a state that decodes to *)
(* a strictly greater number than before; and a table the partition        *)
(* resizer writes has the same rows as the table it parsed, every start    *)
(* unchanged, no size smaller, and the size of the selected partition      *)
(* strictly greater.                                                       *)
(***************************************************************************)
C5_MonotoneGrowth ==
    /\ \A i \in 1..Len(changes) :
           /\ changes[i].after[2] = changes[i].before[2]
           /\ changes[i].after[1] > changes[i].before[1]
    /\ \A i \in Idx("sfdisk -f") :
           LET new == ops[i].arg.rows
               old == env0.table.rows
           IN  /\ Len(new) = Len(old)
               /\ \A j \in 1..Len(old) :
                      /\ new[j].dev = old[j].dev
                      /\ RowAttr(new[j], "start") = RowAttr(old[j], "start")
                      /\ RowAttr(new[j], "size") >= RowAttr(old[j], "size")
               /\ RowAttr(new[LastReal(env0.table)], "size") > Size0

C5_Witness ==
    /\ pc = "done" /\ result = "ok"
    /\ Idx("sfdisk -f") # {}
    /\ \E i \in 1..Len(changes) :
           changes[i].r.kind = "part" /\ changes[i].after[1] > changes[i].before[1]

(***************************************************************************)
(* C6.  End reserve: once partitionResizer.Resize has read the disk's size *)
(* D, with E the end of the selected partition, it writes the table (with  *)
(* --dry-run: would write it) if and only if D - E > 2048, a negative      *)
(* D - E included; the table it writes has the partition's size set to     *)
(* size + (D - E - 2048), so its end is D - 2048.                          *)
(***************************************************************************)
C6_EndReserve ==
    SizeWasRead =>
        /\ WriteIdx # {} <=> Remain0 > 2048
        /\ dry => Idx("sfdisk -f") = {}
        /\ ~dry => Idx("dry-run sfdisk") = {}
        /\ \A i \in WriteIdx :
               LET row == ops[i].arg.rows[LastReal(env0.table)]
               IN  /\ RowAttr(row, "size") = Size0 + (Remain0 - 2048)
                   /\ RowAttr(row, "start") + RowAttr(row, "size")
                          = env0.disk.size - 2048

C6_Witness ==
    /\ SizeWasRead /\ ~dry /\ pc = "done" /\ result = "ok"
    /\ Remain0 = 2049
    /\ Idx("sfdisk -f") # {} /\ Idx("BLKPG") # {}
    /\ RowAttr(table.rows[LastReal(table)], "size") = Size0 + 1

(***************************************************************************)
(* C7.  Already maximal: when the sectors after the selected partition are *)
(* at most 2048, partitionResizer.Resize returns success, issues neither   *)
(* the table write nor the BLKPG ioctl, leaves the table (its last-lba row *)
(* included) and the kernel's partitions as they were, and the change list *)
(* gets no line for the partition.                                         *)
(***************************************************************************)
C7_AlreadyMaximal ==
    (SizeWasRead /\ Remain0 <= 2048) =>
        /\ WriteIdx = {} /\ Idx("BLKPG") = {}
        /\ table = env0.table /\ kern = env0.kern
        /\ Failed => ~(/\ ops[Len(ops)].arg.r.kind = "part"
                        /\ ops[Len(ops)].arg.call = "Resize")
        /\ \A i \in 1..Len(changes) : changes[i].r.kind # "part"

C7_Witness ==
    /\ SizeWasRead /\ Remain0 = 2048 /\ ~dry
    /\ pc = "done" /\ result = "ok"
    /\ \E i \in 1..Len(table.meta) : table.meta[i].k = "last-lba"
    /\ changes # <<>>

(***************************************************************************)
(* C8.  Disk-device derivation: for the partition device handed to         *)
(* partitionResizer.Resize, diskDev yields the path with the trailing      *)
(* digits stripped for /dev/sdX<digits> and /dev/vdX<digits>, and with the *)
(* trailing p<digits> stripped for /dev/mmcblkNpM and /dev/nvmeNnMpK.      *)
(***************************************************************************)
\* the disk of a partition device as the naming rules give it
DiskOfName(p) ==
    IF HasPrefix(p, DevSd) \/ HasPrefix(p, DevVd)
    THEN TrimRightDigits(p)
    ELSE TrimSuffix(TrimRightDigits(p), <<"p">>)

C8_DiskDevDerivation ==
    \A i \in ResizeIdx("part") :
        LET p == ops[i].arg.dev
        IN  (\E pre \in {DevSd, DevVd, DevMmcblk, DevNvme} : HasPrefix(p, pre)) =>
                /\ diskDev(p) = Value(DiskOfName(p))
                /\ DiskOfName(p) = disk.dev

(***************************************************************************)
(* C9.  Partition-type allow-list: partitionResizer.Resize goes on to the  *)
(* size computation only if the type of the last non-zero partition is one *)
(* of the three GPT type ids on GPT, or exactly 83 on MBR; for any other   *)
(* type, the MBR LVM type 8e included, it returns an error and neither     *)
(* writes the table nor issues the ioctl.                                  *)
(***************************************************************************)
\* the table at the start of the run has a row that is not all zero
HasReal ==
    \E i \in 1..Len(env0.table.rows) : ~RowIsZero(env0.table.rows[i])

TypeIsListed ==
    IF LabelOf(env0.table) = "gpt"
    THEN Type0 \in {"E6D6D379-F507-44C2-A23C-238F2A3DF928",
                    "4F68BCE3-E8CD-4DB1-96E7-FBCAF984B709",
                    "0FC63DAF-8483-4772-8E79-3D69D8477DE4"}
    ELSE Type0 = "83"

\* the table was dumped and its label was accepted
LabelAccepted ==
    /\ Idx("sfdisk -d") # {}
    /\ ~FailedWith("sfdisk -d") /\ ~FailedWith("no partitions")
    /\ ~FailedWith("label") /\ ~FailedWith("blkid")

C9_TypeAllowList ==
    /\ Idx("read size") # {} => TypeIsListed
    /\ (LabelAccepted /\ HasReal /\ ~TypeIsListed) =>
           /\ FailedWith("type")
           /\ result = "error"
           /\ ops[Len(ops)].arg.r.kind = "part"
           /\ WriteIdx = {}
           /\ NothingWritten

C9_Witness ==
    /\ pc = "done" /\ FailedWith("type")
    /\ LabelOf(env0.table) = "dos" /\ Type0 = "8e"
    /\ Remain0 > 2048 /\ ~dry

(***************************************************************************)
(* C10.  Label gate: with label dos the table is treated as MBR and with   *)
(* label gpt as GPT, without asking blkid; without a label blkid is asked  *)
(* and the table is treated as MBR if it reports PTTYPE=dos, and Resize    *)
(* fails if it reports anything else (gpt included) or fails itself; any   *)
(* other label fails; in every failing case no table is written and no     *)
(* ioctl is issued.                                                        *)
(***************************************************************************)
Dumped ==
    /\ Idx("sfdisk -d") # {}
    /\ ~FailedWith("sfdisk -d") /\ ~FailedWith("no partitions")

C10_LabelGate ==
    Dumped =>
        LET label == LabelOf(env0.table)
        IN  /\ label \in {"dos", "gpt"} =>
                   /\ Idx("blkid") = {}
                   /\ ~FailedWith("label") /\ ~FailedWith("blkid")
            /\ (label = "dos" /\ Idx("read size") # {}) => Type0 = "83"
            /\ (label = "gpt" /\ Idx("read size") # {}) => Type0 # "83"
            /\ label = "" =>
                   /\ Idx("blkid") # {}
                   /\ \A i \in Idx("blkid") : ops[i - 1].op = "sfdisk -d"
                   /\ blkid # "dos" => FailedWith("blkid")
                   /\ Idx("read size") # {} => (blkid = "dos" /\ Type0 = "83")
            /\ label \notin {"dos", "gpt", ""} =>
                   Idx("blkid") = {} /\ FailedWith("label")
            /\ (FailedWith("label") \/ FailedWith("blkid")) =>
                   /\ result = "error"
                   /\ Idx("read size") = {}
                   /\ WriteIdx = {}
                   /\ NothingWritten

C10_Witness ==
    /\ Dumped /\ LabelOf(env0.table) = "" /\ blkid = "dos"
    /\ Idx("blkid") # {} /\ Idx("sfdisk -f") # {}
    /\ pc = "done" /\ result = "ok"


(***************************************************************************)
(* C11.  When a run fails at some layer, the change list returned with the *)
(* error holds exactly the lines of the layers below the failing one whose *)
(* state changed, in the order of the layers, and main prints them under   *)
(* "Changes made:" and exits non-zero; a run ended by log.Fatalf or a      *)
(* panic has no change line to lose.                                       *)
(***************************************************************************)
\* the number State reports for a layer on a machine
LayerSize(r, e) ==
    CASE r.kind = "fs" -> e.fsBlocks
      [] r.kind = "lv" -> e.lvm.lv.sectors
      [] r.kind = "pv" -> e.lvm.pvs[PvIdx(e.lvm, r.dev)].sectors
      [] r.kind = "part" ->
             LET q == {x \in e.kern : Dev \o x.name = r.dev}
             IN  IF q = {} THEN -1 ELSE (CHOOSE x \in q : TRUE).size

\* the resizers whose Resize returned before the run failed
DoneBelow ==
    {ops[i].arg : i \in {j \in Idx("Resize") :
                      Rank(ops[j].arg.kind) < Rank(ops[Len(ops)].arg.r.kind)}}

C11_ChangesSurviveFailure ==
    /\ (Failed /\ result = "error") =>
           /\ \A i \in 1..Len(changes) :
                  /\ changes[i].r \in DoneBelow
                  /\ changes[i].before[1] = LayerSize(changes[i].r, env0)
                  /\ changes[i].after[1] = LayerSize(changes[i].r, Env)
                  /\ \A j \in 1..(i - 1) :
                         Rank(changes[j].r.kind) < Rank(changes[i].r.kind)
           /\ \A r \in DoneBelow :
                  LayerSize(r, env0) # LayerSize(r, Env)
                      <=> \E i \in 1..Len(changes) : changes[i].r = r
           /\ pc = "done" =>
                  /\ printed.lines = changes
                  /\ printed.exit = 1
                  /\ printed.head = "Changes made:" <=> changes # <<>>
    /\ result \in {"fatal", "panic"} =>
           changes = <<>> /\ printed = NoOutput

C11_Witness ==
    /\ pc = "done" /\ Failed /\ result = "error"
    /\ ops[Len(ops)].arg.r.kind = "lv"
    /\ ops[Len(ops)].arg.call = "Resize"
    /\ Len(changes) = 2
    /\ printed.head = "Changes made:" /\ printed.lines = changes

(***************************************************************************)
(* C12.  Output and exit status: "No changes made." is printed exactly     *)
(* when Resize returned no change and no error; "Changes made:" with one   *)
(* line per change exactly when the change list is not empty; the exit     *)
(* status is 0 exactly when Resize returned no error.                      *)
(***************************************************************************)
C12_OutputAndExit ==
    pc = "done" =>
        /\ result \in {"ok", "error"} =>
               /\ printed.head = "No changes made."
                      <=> (changes = <<>> /\ result = "ok")
               /\ printed.head = "Changes made:" <=> changes # <<>>
               /\ printed.head \in {"No changes made.", "Changes made:", ""}
               /\ printed.lines = changes
        /\ printed.exit = 0 <=> result = "ok"
        /\ printed.exit \in {0, 1}

C12_Witness ==
    /\ pc = "done" /\ result = "error" /\ changes = <<>>
    /\ Idx("Resize") # {}
    /\ printed = [head |-> "", lines |-> <<>>, exit |-> 1]


(***************************************************************************)
(* C13.  Mount resolution: statFS returns the device and the filesystem    *)
(* type of the first line of /proc/mounts that has at least 3 fields, a    *)
(* first field other than rootfs and the mount point as second field; it   *)
(* fails when there is no such line; the device it returns is never        *)
(* /dev/root: that is replaced by another block entry of /dev with the     *)
(* same device number, or the resolution fails.                            *)
(***************************************************************************)
\* the lines of /proc/mounts that count for the mount point
MountLines ==
    {i \in 1..Len(mounts) :
         /\ Len(mounts[i]) >= 3
         /\ mounts[i][1] # <<"r", "o", "o", "t", "f", "s">>
         /\ mounts[i][2] = mnt}

FirstMountLine == mounts[CHOOSE i \in MountLines : \A j \in MountLines : i <= j]

\* the block entries of /dev that have the device number of /dev/root
SameAsRoot ==
    {n \in devNodes :
         /\ n.mode = "block" /\ n.name # <<"r", "o", "o", "t">>
         /\ \E r \in devNodes :
                r.mode = "block" /\ r.name = <<"r", "o", "o", "t">>
                /\ r.rdev = n.rdev}

\* the devices statFS may return
Resolved ==
    IF MountLines = {} THEN {}
    ELSE IF FirstMountLine[1] = <<"/", "d", "e", "v", "/", "r", "o", "o", "t">>
    THEN {<<"/", "d", "e", "v", "/">> \o n.name : n \in SameAsRoot}
    ELSE {FirstMountLine[1]}

C13_MountResolution ==
    /\ \A fs \in statFS(mnt, mounts, devNodes, "") :
           /\ fs.ok <=> Resolved # {}
           /\ fs.ok =>
                  /\ fs.dev \in Resolved
                  /\ fs.dev # <<"/", "d", "e", "v", "/", "r", "o", "o", "t">>
                  /\ fs.fstype = FirstMountLine[3]
                  /\ fs.mnt = mnt
    /\ \A d \in Resolved :
           \E fs \in statFS(mnt, mounts, devNodes, "") : fs.ok /\ fs.dev = d
    /\ stack # <<>> =>
           /\ stack[1].r.kind = "fs"
           /\ stack[1].r.dev \in Resolved
           /\ stack[1].r.dev # <<"/", "d", "e", "v", "/", "r", "o", "o", "t">>
    /\ (pc # "start" /\ Resolved = {}) =>
           /\ pc = "done" /\ result = "fatal"
           /\ ops = <<>> /\ printed = NoOutput

C13_Witness ==
    /\ pc = "resize" /\ stack # <<>>
    /\ MountLines # {}
    /\ FirstMountLine[1] = <<"/", "d", "e", "v", "/", "r", "o", "o", "t">>
    /\ \E n \in devNodes : n.mode = "char" /\ n.rdev = 1
    /\ stack[1].r.dev = <<"/", "d", "e", "v", "/", "s", "d", "a", "1">>
    /\ mounts[1][1] = <<"r", "o", "o", "t", "f", "s">> /\ mounts[1][2] = mnt


(***************************************************************************)
(* C14.  Filesystem grower dispatch: for ext2, ext3 and ext4 the grow      *)
(* command is resize2fs with the device; for xfs it is xfs_growfs -d with  *)
(* the mount point; for btrfs it is btrfs filesystem resize max with the   *)
(* mount point; for any other type no resizer is built and the run ends    *)
(* before any State, DepResizer or Resize of any layer.                    *)
(***************************************************************************)
\* the command line for a filesystem type, device and mount point
GrowCommand(t, dev, m) ==
    CASE t \in {"ext2", "ext3", "ext4"} -> <<"resize2fs", <<dev>>>>
      [] t = "xfs" -> <<"xfs_growfs", <<<<"-d">>, m>>>>
      [] t = "btrfs" -> <<"btrfs", <<<<"filesystem">>, <<"resize">>, <<"max">>, m>>>>
      [] OTHER -> <<"", <<>>>>

GrowCommands == {"resize2fs", "xfs_growfs", "btrfs"}

C14_GrowerDispatch ==
    /\ stack # <<>> =>
           /\ Resolved # {}
           /\ FirstMountLine[3] \in {"ext2", "ext3", "ext4", "xfs", "btrfs"}
           /\ <<stack[1].r.cmd, stack[1].r.args>>
                  = GrowCommand(FirstMountLine[3], stack[1].r.dev, mnt)
    /\ \A i \in 1..Len(ops) :
           /\ ops[i].op \in GrowCommands =>
                  /\ ~dry
                  /\ ops[i - 1].op = "Resize" /\ ops[i - 1].arg.kind = "fs"
                  /\ <<ops[i].op, ops[i].arg>>
                         = GrowCommand(FirstMountLine[3], ops[i - 1].arg.dev, mnt)
           /\ ops[i].op = "dry-run grow" =>
                  /\ dry
                  /\ ops[i - 1].op = "Resize" /\ ops[i - 1].arg.kind = "fs"
                  /\ <<ops[i].arg.cmd, ops[i].arg.args>>
                         = GrowCommand(FirstMountLine[3], ops[i - 1].arg.dev, mnt)
           /\ (ops[i].op = "Resize" /\ ops[i].arg.kind = "fs") =>
                  /\ i < Len(ops)
                  /\ ops[i + 1].op \in (IF dry THEN {"dry-run grow"}
                                        ELSE {GrowCommand(FirstMountLine[3],
                                                          ops[i].arg.dev, mnt)[1]})
    /\ (/\ pc # "start" /\ Resolved # {}
        /\ FirstMountLine[3] \notin {"ext2", "ext3", "ext4", "xfs", "btrfs"}) =>
           /\ pc = "done" /\ result = "fatal"
           /\ ops = <<>> /\ stack = <<>> /\ changes = <<>>
           /\ table = env0.table /\ kern = env0.kern
           /\ lvm = env0.lvm /\ fsBlocks = env0.fsBlocks

C14_Witness ==
    /\ pc = "done" /\ result = "ok" /\ ~dry
    /\ \E i \in Idx("xfs_growfs") : ops[i].arg = <<<<"-d">>, <<"/">>>>
    /\ fsBlocks > env0.fsBlocks


(***************************************************************************)
(* C15.  Filesystem dependency choice, as claimed: fsResizer.DepResizer    *)
(* returns a partition resizer iff the device starts with /dev/sd,         *)
(* /dev/vd, /dev/mmcblk or /dev/nvme and ends in a digit; otherwise an LV  *)
(* resizer iff the device starts with /dev/mapper/ or its base name starts *)
(* with dm-; otherwise (/dev/root and whole disks included) it returns an  *)
(* error and nothing is resized.                                           *)
(***************************************************************************)
StartsWith(s, p) == Len(s) >= Len(p) /\ \A i \in 1..Len(p) : s[i] = p[i]

LastSlash(s) ==
    IF \E i \in 1..Len(s) : s[i] = "/"
    THEN CHOOSE i \in 1..Len(s) : s[i] = "/" /\ \A j \in (i + 1)..Len(s) : s[j] # "/"
    ELSE 0

BaseName(s) == [i \in 1..(Len(s) - LastSlash(s)) |-> s[LastSlash(s) + i]]

IsPartitionName(d) ==
    /\ \/ StartsWith(d, <<"/", "d", "e", "v", "/", "s", "d">>)
       \/ StartsWith(d, <<"/", "d", "e", "v", "/", "v", "d">>)
       \/ StartsWith(d, <<"/", "d", "e", "v", "/", "m", "m", "c", "b", "l", "k">>)
       \/ StartsWith(d, <<"/", "d", "e", "v", "/", "n", "v", "m", "e">>)
    /\ Len(d) > 0
    /\ d[Len(d)] \in {"0", "1", "2", "3", "4", "5", "6", "7", "8", "9"}

\* the dependency of a filesystem on device d, given the prefix that marks
\* an LV: the kind of resizer, "" for an error
DepKind(d, mapper) ==
    IF d = <<"/", "d", "e", "v", "/", "r", "o", "o", "t">> THEN ""
    ELSE IF IsPartitionName(d) THEN "part"
    ELSE IF StartsWith(d, mapper) \/ StartsWith(BaseName(d), <<"d", "m", "-">>)
    THEN "lv"
    ELSE ""

\* what follows every call of fsResizer.DepResizer in the log
DepChoice(mapper) ==
    /\ \A i \in Idx("DepResizer") :
           ops[i].arg.kind = "fs" =>
               LET d == ops[i].arg.dev
                   k == DepKind(d, mapper)
               IN  /\ i = Len(ops) =>
                          /\ k # "" /\ stack # <<>>
                          /\ stack[Len(stack)].r.kind = k
                          /\ stack[Len(stack)].r.dev = d
                   /\ (i < Len(ops) /\ k # "") =>
                          /\ ops[i + 1].op = "State"
                          /\ ops[i + 1].arg.kind = k
                          /\ ops[i + 1].arg.dev = d
                   /\ (i < Len(ops) /\ k = "") =>
                          /\ ops[i + 1].op = "error"
                          /\ ops[i + 1].arg.call = "DepResizer"
                          /\ ops[i + 1].arg.r = ops[i].arg
                          /\ i + 1 = Len(ops)
                          /\ Idx("Resize") = {}
                          /\ result = "error" /\ changes = <<>>
                          /\ table = env0.table /\ kern = env0.kern
                          /\ lvm = env0.lvm /\ fsBlocks = env0.fsBlocks
    /\ ~fsDepResizer(<<"/", "d", "e", "v", "/", "r", "o", "o", "t">>).ok

C15_DepChoiceAsClaimed ==
    DepChoice(<<"/", "d", "e", "v", "/", "m", "a", "p", "p", "e", "r", "/">>)

(***************************************************************************)
(* C15, amended.  The same, with the LV resizer returned iff the device    *)
(* starts with /dev/mapper (no "/" after it is asked for) or its base name *)
(* starts with dm-.                                                        *)
(***************************************************************************)
C15_DepChoice ==
    DepChoice(<<"/", "d", "e", "v", "/", "m", "a", "p", "p", "e", "r">>)

C15_Witness ==
    \E i \in Idx("DepResizer") :
        /\ ops[i].arg.kind = "fs"
        /\ ops[i].arg.dev = <<"/", "d", "e", "v", "/", "m", "a", "p", "p", "e", "r", "x">>
        /\ i < Len(ops)
        /\ ops[i + 1].op = "State" /\ ops[i + 1].arg.kind = "lv"


(***************************************************************************)
(* C16.  Errors are never swallowed: a failure of an external command, of  *)
(* State or of DepResizer at any layer ends the run with an error and a    *)
(* non-zero exit status.  The one exception is lvextend failing with       *)
(* "matches existing size": Resize of the LV reports success, the LV is    *)
(* unchanged, and the engine goes on with the State of the LV and with the *)
(* filesystem.                                                             *)
(***************************************************************************)
\* the operation a failure is injected in, as it is named in the log
Failing(f, r) ==
    CASE f = "grow" -> r.cmd
      [] f = "open" -> "sfdisk -f"
      [] OTHER -> f

OpNames(o) == {o[i].op : i \in 1..Len(o)}

\* in the current state, the call the innermost frame is about to make
\* fails whenever one of its operations fails
NextCallFails ==
    stack # <<>> =>
        LET fr == stack[Len(stack)]
        IN  /\ fr.pc \in {"state0", "state1"} =>
                   \A st \in StateOf(fr.r, TRUE) : ~st.ok
            /\ (fr.pc = "dep" /\ fr.r.kind = "lv") =>
                   \A f \in {"lvdisplay", "pvdisplay"} : ~DepOf(fr.r, f).ok
            /\ fr.pc = "resize" =>
                   \A f \in FailPoints(fr.r) \ {""} :
                       Failing(f, fr.r) \in OpNames(ResizeOf(fr.r, f).ops)
                           => ResizeOf(fr.r, f).out \in {"err", "fatal", "panic"}

C16_ErrorsNotSwallowed ==
    /\ NextCallFails
    /\ \A i \in 1..Len(ops) :
           /\ ops[i].op \in Marks =>
                  /\ i = Len(ops)
                  /\ result \in {"error", "fatal", "panic"}
                  /\ pc \in {"print", "done"}
                  /\ pc = "done" => printed.exit = 1
           /\ (ops[i].op = "BLKPG" /\ ops[i].arg.errno # "") =>
                  /\ i < Len(ops)
                  /\ ops[i + 1].op = "error"
           /\ ops[i].op = "matches existing size" =>
                  /\ ops[i - 1].op = "lvextend"
                  /\ ops[i - 2].op = "Resize" /\ ops[i - 2].arg.kind = "lv"
                  /\ i < Len(ops) =>
                         /\ ops[i + 1].op = "State"
                         /\ ops[i + 1].arg = ops[i - 2].arg
                  /\ (i + 1 < Len(ops) /\ ops[i + 2].op \notin Marks) =>
                         /\ ops[i + 2].op = "Resize"
                         /\ ops[i + 2].arg.kind = "fs"
                  /\ \A j \in 1..Len(changes) : changes[j].r.kind # "lv"
    /\ (pc = "done" /\ result = "ok") =>
           /\ \A i \in 1..Len(ops) : ops[i].op \notin Marks
           /\ printed.exit = 0

C16_Witness ==
    /\ pc = "done" /\ result = "ok" /\ ~dry
    /\ Idx("matches existing size") # {}
    /\ \E i \in ResizeIdx("fs") : \A j \in Idx("matches existing size") : j < i
    /\ lvm.lv.sectors = env0.lvm.lv.sectors
    /\ fsBlocks > env0.fsBlocks


(***************************************************************************)
(* C17.  The dependencies form a list, never a cycle: a filesystem depends *)
(* on a partition or an LV, an LV on the PV of the first pvdisplay row of  *)
(* its volume group, a PV on the partition of its own name iff the name    *)
(* ends in a digit and on nothing otherwise, a partition on nothing.  So   *)
(* the calls of Resize nest at most 4 deep, each layer once, and every     *)
(* invocation comes to its end.                                            *)
(***************************************************************************)
\* the resizers that may be the dependency of r
ClaimedDep(r) ==
    LET res(kind) == [kind |-> kind, dev |-> r.dev, cmd |-> "", args |-> <<>>]
        rows == {i \in 1..Len(lvm.pvs) : lvm.pvs[i].vg = lvm.lv.vg}
    IN  CASE r.kind = "fs" -> {res("part"), res("lv")}
          [] r.kind = "lv" ->
                 {[kind |-> "pv", dev |-> lvm.pvs[i].dev, cmd |-> "",
                   args |-> <<>>] : i \in {j \in rows : \A k \in rows : j <= k}}
          [] r.kind = "pv" ->
                 IF r.dev[Len(r.dev)] \in
                        {"0", "1", "2", "3", "4", "5", "6", "7", "8", "9"}
                 THEN {res("part")}
                 ELSE {}
          [] r.kind = "part" -> {}

\* the calls of the engine and its error returns after entry i of the log
CallsAfter(i) ==
    {j \in (i + 1)..Len(ops) : ops[j].op \in {"State", "Resize"} \cup Marks}

ChainIsList ==
    /\ Len(stack) <= 4
    /\ stack # <<>> => stack[1].r.kind = "fs"
    /\ \A i \in 1..(Len(stack) - 1) :
           /\ stack[i + 1].r \in ClaimedDep(stack[i].r)
           /\ Rank(stack[i + 1].r.kind) < Rank(stack[i].r.kind)
           /\ stack[i].pc = "resize"
    /\ \A i \in Idx("DepResizer") :
           CallsAfter(i) # {} =>
               LET n == CHOOSE j \in CallsAfter(i) : \A k \in CallsAfter(i) : j <= k
               IN  IF ops[n].op \in Marks
                   THEN ops[n].arg.call = "DepResizer" /\ ops[n].arg.r = ops[i].arg
                   ELSE IF ops[n].op = "State"
                   THEN ops[n].arg \in ClaimedDep(ops[i].arg)
                   ELSE /\ ops[n].arg = ops[i].arg
                        /\ ClaimedDep(ops[i].arg) = {}
    /\ \A i, j \in Idx("Resize") : i # j => ops[i].arg # ops[j].arg
    /\ Len(SelectSeq(ops, LAMBDA o : o.op = "Resize")) <= 4

Terminates == (pc = "resize") ~> (pc = "done")

C17_ChainTerminates ==
    /\ []ChainIsList
    /\ Terminates

C17_Witness ==
    /\ pc = "done" /\ result = "ok"
    /\ ResizeKinds = <<"part", "pv", "lv", "fs">>
    /\ Len(lvm.pvs) = 2
    /\ lvm.pvs[1].vg # lvm.lv.vg


(***************************************************************************)
(* C18.  A run with --dry-run and a run without it, started on the same    *)
(* machine, issue the same operations in the same order, except that       *)
(* where the second runs the grow command of the filesystem or writes the  *)
(* table with sfdisk -f, the first prints a message.  Two runs are         *)
(* compared through the log each of them leaves: the log of a run without  *)
(* --dry-run, with the replacements made, and the log of a run with        *)
(* --dry-run as it is, are both the beginning of one sequence that is      *)
(* computed from the machine the run started on; a run that succeeds has   *)
(* the whole of it.  What lvextend answers is not an operation.            *)
(***************************************************************************)
Growers == {"resize2fs", "xfs_growfs", "btrfs"}

\* the operations of a log, without what was answered
Issued(o) ==
    SelectSeq(o, LAMBDA x : x.op \notin Marks \cup {"matches existing size"})

\* the log of a run without --dry-run, with the grow command and the write
\* of the table replaced by their messages, and the operations of skip
\* left out
Replaced(o, skip) ==
    LET kept == SelectSeq(Issued(o), LAMBDA x : x.op \notin skip)
    IN  [i \in 1..Len(kept) |->
            CASE kept[i].op = "sfdisk -f" -> Op("dry-run sfdisk", kept[i].arg)
              [] kept[i].op \in Growers ->
                     Op("dry-run grow", [cmd |-> kept[i].op, args |-> kept[i].arg])
              [] OTHER -> kept[i]]

\* what Resize(r) issues on the machine the run started on when nothing
\* fails, written as a run with --dry-run shows it
RECURSIVE Expected(_, _)
Expected(r, skip) ==
    LET dp == CASE r.kind = "fs" ->
                      [ok |-> fsDepResizer(r.dev).ok,
                       dep |-> fsDepResizer(r.dev).dep, ops |-> <<>>]
                [] r.kind = "lv" -> lvDepResizer(r.dev, env0.lvm, "")
                [] r.kind = "pv" ->
                      [ok |-> TRUE, dep |-> pvDepResizer(r.dev), ops |-> <<>>]
                [] r.kind = "part" -> [ok |-> TRUE, dep |-> <<>>, ops |-> <<>>]
        own == CASE r.kind = "fs" ->
                       fsResize(r, FALSE, env0.disk, env0.kern, env0.lvm,
                                env0.fsBlocks, "").ops
                 [] r.kind = "lv" -> <<Op("lvextend", r.dev)>>
                 [] r.kind = "pv" -> <<Op("pvresize", r.dev)>>
                 [] r.kind = "part" ->
                       partitionResize(r.dev, FALSE, env0.disk, env0.table,
                                       blkid, env0.kern, "").ops
    IN  <<Op("State", r), Op("DepResizer", r)>> \o dp.ops
        \o (IF ~dp.ok THEN <<>>
            ELSE (IF dp.dep = <<>> THEN <<>> ELSE Expected(dp.dep[1], skip))
                 \o <<Op("Resize", r)>> \o Replaced(own, skip)
                 \o <<Op("State", r)>>)

DryRunDiffers(skip) ==
    ops # <<>> =>
        LET seen == IF dry THEN Issued(ops) ELSE Replaced(ops, skip)
            all == Expected(ops[1].arg, skip)
        IN  /\ IsPrefix(seen, all)
            /\ result = "ok" => seen = all

\* as claimed: the ioctl is issued with --dry-run as it is without
C18_DryRunAsClaimed == DryRunDiffers({})

\* C18, amended: with --dry-run the message also stands for the BLKPG
\* ioctl that follows the write of the table; every other operation,
\* lvextend and pvresize among them, is issued in both runs.
C18_DryRunDiffers == DryRunDiffers({"BLKPG"})

C18_Witness ==
    /\ dry /\ pc = "done" /\ result = "ok"
    /\ IsChain4
    /\ Idx("dry-run sfdisk") # {} /\ Idx("dry-run grow") # {}
    /\ Idx("pvresize") # {} /\ Idx("lvextend") # {}
    /\ Idx("BLKPG") = {}
    /\ Issued(ops) = Expected(ops[1].arg, {"BLKPG"})
    /\ \E i \in 1..Len(Expected(ops[1].arg, {})) :
           Expected(ops[1].arg, {})[i].op = "BLKPG"


(***************************************************************************)
(* C19.  The BLKPG_RESIZE_PARTITION ioctl is issued only in a run without  *)
(* --dry-run, right after sfdisk -f has written the table, for the row     *)
(* that the written table has changed: start is 512 times the row's start, *)
(* length 512 times the row's size as it was written, and pno the position *)
(* of the row among the rows of the dump, counted from 1.  A write that    *)
(* fails is followed by no ioctl.                                          *)
(***************************************************************************)
\* the rows of the written table w that differ from the table of the disk
\* at the start of the run
Grown(w) ==
    {j \in 1..Len(w.rows) :
         j > Len(env0.table.rows) \/ w.rows[j] # env0.table.rows[j]}

C19_KernelUpdate ==
    /\ \A i \in Idx("BLKPG") :
           /\ ~dry
           /\ i > 1 /\ ops[i - 1].op = "sfdisk -f"
           /\ LET w == ops[i - 1].arg
              IN  /\ \E j \in Grown(w) : Grown(w) = {j}
                  /\ \A j \in Grown(w) :
                         /\ ops[i].arg.pno = j
                         /\ ops[i].arg.start = 512 * RowAttr(w.rows[j], "start")
                         /\ ops[i].arg.length = 512 * RowAttr(w.rows[j], "size")
                         /\ RowAttr(w.rows[j], "size") > RowAttr(env0.table.rows[j], "size")
                         /\ j = LastReal(env0.table)
                  /\ ops[i].arg.errno = "" => table = w
    /\ FailedWith("sfdisk -f") => Idx("BLKPG") = {} /\ kern = env0.kern
    /\ \A i \in Idx("sfdisk -f") :
           i < Len(ops) =>
               \/ ops[i + 1].op = "BLKPG"
               \/ ops[i + 1].op \in Marks /\ ops[i + 1].arg.why \in {"sfdisk -f", "ENOENT"}
    /\ Len(SelectSeq(ops, LAMBDA o : o.op = "BLKPG")) <= 1

C19_Witness ==
    /\ pc = "done" /\ result = "ok" /\ ~dry
    /\ \E i \in Idx("BLKPG") :
           /\ ops[i].arg.pno = 3
           /\ ops[i].arg.errno = ""
           /\ ops[i].arg.start = 512 * 10240
           /\ ops[i].arg.length = 512 * (RowAttr(env0.table.rows[3], "size") + Remain0 - 2048)


(***************************************************************************)
(* C20.  The row that is grown is the last row of the dump that is not all *)
(* zero, a row being all zero when its type is "0", its start 0 and its    *)
(* size 0, the three together; the rows after it are all zero.  Its type   *)
(* is the one the allow-list is asked about and its end the one the disk's *)
(* size is compared with.  When every row is all zero, or the dump has no  *)
(* row, Resize of the partition fails and nothing is written.              *)
(***************************************************************************)
\* the rows of the table at the start of the run that are not all zero
RealRows ==
    {i \in 1..Len(env0.table.rows) : ~RowIsZero(env0.table.rows[i])}

C20_LastRealPartition ==
    /\ \A i \in WriteIdx :
           /\ RealRows # {}
           /\ \E j \in RealRows :
                  /\ \A h \in RealRows : h <= j
                  /\ Grown(ops[i].arg) = {j}
                  /\ \A h \in (j + 1)..Len(ops[i].arg.rows) :
                         RowIsZero(ops[i].arg.rows[h])
                  /\ RowAttr(ops[i].arg.rows[j], "size")
                         = env0.disk.size - 2048 - RowAttr(env0.table.rows[j], "start")
    /\ (SizeWasRead \/ FailedWith("type")) =>
           /\ RealRows # {}
           /\ \E j \in RealRows :
                  /\ \A h \in RealRows : h <= j
                  /\ FailedWith("type") <=>
                         ~(IF LabelOf(env0.table) = "gpt"
                           THEN RowType(env0.table.rows[j])
                                    \in {"E6D6D379-F507-44C2-A23C-238F2A3DF928",
                                         "4F68BCE3-E8CD-4DB1-96E7-FBCAF984B709",
                                         "0FC63DAF-8483-4772-8E79-3D69D8477DE4"}
                           ELSE RowType(env0.table.rows[j]) = "83")
    /\ (RealRows = {} /\ ResizeIdx("part") # {}) =>
           /\ Failed
           /\ result \in {"error", "fatal", "panic"}
           /\ ops[Len(ops)].arg.call = "Resize"
           /\ ops[Len(ops)].arg.r.kind = "part"
           /\ LabelAccepted =>
                  FailedWith(IF Len(env0.table.rows) = 0 THEN "no partitions"
                             ELSE "no non-zero")
           /\ Idx("read size") = {}
           /\ WriteIdx = {}
           /\ NothingWritten
    /\ FailedWith("no non-zero") =>
           /\ RealRows = {} /\ Len(env0.table.rows) > 0
           /\ result = "error"
    /\ FailedWith("no partitions") =>
           /\ Len(env0.table.rows) = 0
           /\ result = "fatal"

C20_Witness ==
    /\ pc = "done" /\ result = "ok" /\ ~dry
    /\ Len(env0.table.rows) = 3
    /\ RealRows = {1}
    /\ \E i \in Idx("sfdisk -f") : Grown(ops[i].arg) = {1}
    /\ Len(changes) = 2


(***************************************************************************)
(* C21.  The table sent to sfdisk (or announced with --dry-run) is the     *)
(* parsed dump with two changes: the size attribute of the selected row    *)
(* is size + (remain - 2048), and the metadata row last-lba is gone.       *)
(* Every other metadata row, every other partition row, the device and     *)
(* every other attribute of the selected row, and the order of the rows    *)
(* and of the attributes are those of the dump.                            *)
(***************************************************************************)
\* the metadata rows of a dump other than last-lba, in their order
MetaKept(dump) == SelectSeq(dump.meta, LAMBDA m : m.k # "last-lba")

\* writing w changes nothing of dump but the size of row j, which becomes n
FrameOfWrite(dump, w, j, n) ==
    /\ w.meta = MetaKept(dump)
    /\ Len(w.rows) = Len(dump.rows)
    /\ \A h \in 1..Len(dump.rows) : h # j => w.rows[h] = dump.rows[h]
    /\ w.rows[j].dev = dump.rows[j].dev
    /\ Len(w.rows[j].attr) = Len(dump.rows[j].attr)
    /\ \A a \in 1..Len(dump.rows[j].attr) :
           IF dump.rows[j].attr[a].k = "size"
           THEN w.rows[j].attr[a] = [k |-> "size", v |-> n, bare |-> FALSE]
           ELSE w.rows[j].attr[a] = dump.rows[j].attr[a]

C21_FrameOfWrite ==
    \A i \in WriteIdx :
        /\ HasReal
        /\ FrameOfWrite(env0.table, ops[i].arg, LastReal(env0.table),
                        Size0 + (Remain0 - 2048))
        /\ (ops[i].op = "sfdisk -f" /\ ~FailedWith("sfdisk -f")) =>
               table = ops[i].arg

C21_Witness ==
    /\ pc = "done" /\ ~dry /\ result = "ok"
    /\ LabelOf(env0.table) = "gpt"
    /\ Len(env0.table.rows) = 3
    /\ \E a \in 1..Len(env0.table.meta) : env0.table.meta[a].k = "last-lba"
    /\ \E i \in Idx("sfdisk -f") :
           /\ Len(ops[i].arg.meta) = Len(env0.table.meta) - 1
           /\ RowAttr(ops[i].arg.rows[3], "size") = Size0 + GrowBy


(***************************************************************************)
(* C22.  After a run that succeeded, the change list has one line, with    *)
(* the resizer, its state before and its state after, for each layer of    *)
(* the chain whose State after its Resize differs from its State before,   *)
(* and no line for a layer whose State is the same; the lines are in the   *)
(* order partition, PV, LV, filesystem, and main prints them so.           *)
(***************************************************************************)
\* the layers of the chain: the resizers whose Resize was called
Layers == {ops[i].arg : i \in Idx("Resize")}

C22_ChangeSummaries ==
    (result = "ok" /\ pc \in {"print", "done"}) =>
        /\ \A i \in 1..Len(changes) :
               /\ changes[i].r \in Layers
               /\ changes[i].before[1] = LayerSize(changes[i].r, env0)
               /\ changes[i].after[1] = LayerSize(changes[i].r, Env)
               /\ changes[i].before[2] = changes[i].after[2]
               /\ changes[i].before # changes[i].after
               /\ \A j \in 1..(i - 1) :
                      Rank(changes[j].r.kind) < Rank(changes[i].r.kind)
        /\ \A r \in Layers :
               /\ LayerSize(r, env0) # LayerSize(r, Env)
                      => \E i \in 1..Len(changes) : changes[i].r = r
               /\ LayerSize(r, env0) = LayerSize(r, Env)
                      => \A i \in 1..Len(changes) : changes[i].r # r
        /\ Len(changes) <= 4
        /\ pc = "done" => printed.lines = changes

C22_Witness ==
    /\ pc = "done" /\ result = "ok" /\ ~dry
    /\ IsChain4
    /\ Len(changes) = 3
    /\ changes[1].r.kind = "pv" /\ changes[2].r.kind = "lv"
    /\ changes[3].r.kind = "fs"
    /\ \E r \in Layers : r.kind = "part" /\ LayerSize(r, env0) = LayerSize(r, Env)
    /\ printed.lines = changes


(***************************************************************************)
(* C23.  Round trip of the table: when the output of sfdisk -d was parsed  *)
(* to a table t, parsing what Write emits for t gives t again: the same    *)
(* metadata lines, and the same partition lines with the same device,      *)
(* attributes and number, in the same order.                               *)
(***************************************************************************)
C23_RoundTrip ==
    pc = "reparsed" =>
        /\ ops[3].arg.ok
        /\ ops[3].arg.meta = ops[1].arg.meta
        /\ ops[3].arg.parts = ops[1].arg.parts

C23_Witness ==
    /\ pc = "reparsed"
    /\ ops[3].arg = ops[1].arg
    /\ ops[2].arg # table
    /\ Len(ops[1].arg.meta) = 1
    /\ Len(ops[1].arg.parts) = 1
    /\ ops[1].arg.parts[1].pno = 1
    /\ ops[1].arg.parts[1].attr =
           <<<<"n", "=", "a", "=", "=", "b">>, <<>>, <<"c", ":">>>>


(***************************************************************************)
(* C24.  Discovery precedes mutation.  When the first Resize of a run      *)
(* starts, State and then DepResizer have returned without error for every *)
(* layer the run ever touches, nothing has failed and nothing has been     *)
(* changed, and the layer whose Resize it is has no dependency left to     *)
(* discover.  If State or DepResizer fails during the descent, no Resize   *)
(* is ever called, the LVM state, the table, the kernel's partitions and   *)
(* the filesystem are as the run found them, and the change list is empty. *)
(***************************************************************************)
\* the operations that change a layer
Mutating == {"sfdisk -f", "BLKPG", "lvextend", "pvresize"} \cup Growers

\* the resizers the run has touched
Visited ==
    {ops[i].arg : i \in Idx("State") \cup Idx("DepResizer") \cup Idx("Resize")}

\* a failure of State or DepResizer on the way down
DescentFailed ==
    \E i \in 1..Len(ops) :
        /\ ops[i].op \in Marks
        /\ \/ ops[i].arg.call = "DepResizer"
           \/ ops[i].arg.call = "State" /\ ops[i].arg.why = "before"

C24_DiscoveryFirst ==
    /\ Idx("Resize") # {} =>
           LET n == CHOOSE i \in Idx("Resize") : \A j \in Idx("Resize") : i <= j
           IN  /\ \A i \in 1..(n - 1) : ops[i].op \notin Marks \cup Mutating
               /\ \A r \in Visited :
                      \E s, d \in 1..(n - 1) :
                          /\ s < d
                          /\ ops[s].op = "State" /\ ops[s].arg = r
                          /\ ops[d].op = "DepResizer" /\ ops[d].arg = r
               /\ DepOf(ops[n].arg, "").ok
               /\ DepOf(ops[n].arg, "").dep = <<>>
               /\ ~DescentFailed
    /\ DescentFailed =>
           /\ Idx("Resize") = {}
           /\ \A i \in 1..Len(ops) : ops[i].op \notin Mutating
           /\ changes = <<>>
           /\ <<table, kern, lvm, fsBlocks>>
                  = <<env0.table, env0.kern, env0.lvm, env0.fsBlocks>>
           /\ pc = "done" => printed.lines = <<>> /\ printed.exit = 1

C24_Witness ==
    /\ pc = "done" /\ result = "ok" /\ ~dry
    /\ ResizeKinds = <<"part", "pv", "lv", "fs">>
    /\ Len(changes) = 4
    /\ \A i \in Idx("Resize") : i > 10
    /\ Cardinality(Visited) = 4


(***************************************************************************)
(* C25.  Whenever partitionResizer(p).Resize writes a partition table or   *)
(* issues the BLKPG ioctl, the row it modifies is the row whose device is  *)
(* p, the partition whose size State reports: the rows of the written      *)
(* table that differ from the dump are rows of p, the ioctl names the      *)
(* partition of p, and afterwards every other row of the table and every   *)
(* other partition of the kernel is as it was.                             *)
(***************************************************************************)
\* the device of the partition resizer whose Resize issued entry i of the log
PartOf(i) ==
    LET c == CHOOSE k \in ResizeIdx("part") :
                 k < i /\ \A h \in ResizeIdx("part") : h < i => h <= k
    IN  ops[c].arg.dev

C25_GrowsOwnRow ==
    \A i \in WriteIdx \cup Idx("BLKPG") :
        LET p == PartOf(i)
        IN  /\ ops[i].op # "BLKPG" =>
                   \A j \in Grown(ops[i].arg) : ops[i].arg.rows[j].dev = p
            /\ ops[i].op = "BLKPG" =>
                   \A q \in env0.kern :
                       q.partno = ops[i].arg.pno => Dev \o q.name = p
            /\ \A j \in 1..Len(table.rows) :
                   table.rows[j].dev # p => table.rows[j] = env0.table.rows[j]
            /\ \A q \in kern : Dev \o q.name # p => q \in env0.kern


(***************************************************************************)
(* C26.  The partition number pno passed to the BLKPG_RESIZE_PARTITION     *)
(* ioctl is the kernel's number of the grown partition, the decimal number *)
(* that ends its device path: 5 for /dev/sda5 in a dump that lists sda1,   *)
(* sda2 and sda5.                                                          *)
(***************************************************************************)
DigitVal(c) == CHOOSE n \in 0..9 : DigitOf(n) = c

RECURSIVE NumberOf(_)
NumberOf(s) ==
    IF s = <<>> THEN 0
    ELSE 10 * NumberOf(SubSeq(s, 1, Len(s) - 1)) + DigitVal(s[Len(s)])

\* the decimal number a device path ends in
SuffixNumber(d) == NumberOf(SubSeq(d, Len(TrimRightDigits(d)) + 1, Len(d)))

C26_PnoIsKernelNumber ==
    \A i \in Idx("BLKPG") :
        /\ i > 1 /\ ops[i - 1].op = "sfdisk -f"
        /\ \A j \in Grown(ops[i - 1].arg) :
               ops[i].arg.pno = SuffixNumber(ops[i - 1].arg.rows[j].dev)


(***************************************************************************)
(* C27.  No overlap.  If the sector ranges [start, start + size) of the    *)
(* rows of the dump that are not all zero are pairwise disjoint, they are  *)
(* pairwise disjoint in the table Resize writes as well: the grown         *)
(* partition extends only into sectors of no other partition, whatever     *)
(* the order of the rows in the dump.                                      *)
(***************************************************************************)
\* the rows of a dump that are not all zero have pairwise disjoint ranges
Disjoint(dump) ==
    \A i, j \in {h \in 1..Len(dump.rows) : ~RowIsZero(dump.rows[h])} :
        i # j => ~Overlaps(RowAttr(dump.rows[i], "start"),
                           RowAttr(dump.rows[i], "size"),
                           RowAttr(dump.rows[j], "start"),
                           RowAttr(dump.rows[j], "size"))

C27_NoOverlap ==
    Disjoint(env0.table) =>
        /\ \A i \in WriteIdx : Disjoint(ops[i].arg)
        /\ Disjoint(table)


(***************************************************************************)
(* C28.  Atomicity of the partition step on error.  If Resize of the       *)
(* partition returns an error, neither the table on the disk nor the       *)
(* kernel's partitions have changed; and at the end of every Resize of the *)
(* partition the size of the grown row in the table on the disk is the     *)
(* size the kernel has for that partition.                                 *)
(***************************************************************************)
\* Resize of the partition has returned an error
PartResizeFailed ==
    \E i \in Idx("error") :
        ops[i].arg.call = "Resize" /\ ops[i].arg.r.kind = "part"

C28_AtomicOnError ==
    /\ PartResizeFailed => table = env0.table /\ kern = env0.kern
    /\ ResizeIdx("part") # {} =>
           \A j \in Grown(table) :
               \A q \in kern :
                   Dev \o q.name = table.rows[j].dev
                       => q.size = RowAttr(table.rows[j], "size")


(***************************************************************************)
(* C29.  No abort on supported chains.  For every device d that            *)
(* fsResizer.DepResizer or pvResizer.DepResizer hands to a partition       *)
(* resizer (/dev/vda1, /dev/nvme0n1, /dev/mmcblk0, /dev/md0 among them),   *)
(* diskDev(d) in partitionResizer.Resize yields a path or an error and     *)
(* never panics: no run ends in a panic of diskDev.                        *)
(***************************************************************************)
\* the devices the run has made a partition resizer of
PartitionResizers ==
    {ops[i].arg.dev : i \in {j \in Idx("State") : ops[j].arg.kind = "part"}}

C29_DiskDevNeverPanics ==
    /\ \A d \in PartitionResizers : diskDev(d).ok
    /\ \A i \in Idx("panic") : ops[i].arg.why # "diskDev"

=============================================================================
